---- MODULE Spec2Model ----
(***************************************************************************)
(* Booking / ZoomSession lifecycle of the consultation backend:            *)
(* booking.controller.ts, zoomSession.controller.ts, webhook.controller.ts *)
(* and the Mongoose hooks of the Booking and ZoomSession schemas.          *)
(*                                                                         *)
(* Documents are records, collections are functions from the ids of the    *)
(* stored documents to the documents.  Every request handler is one        *)
(* action; the hooks that Mongoose runs inside save() are part of the      *)
(* action that calls save().                                               *)
(***************************************************************************)
EXTENDS Integers, Sequences, FiniteSets, TLC

\* ---------------------------------------------------------------- bounds
MaxBookings == 2
MaxSessions == 2
MaxOps == 3

\* ------------------------------------------------------------ value space
\* undefined / null / absent field
None == "none"
\* a Date that failed to parse (getTime() is NaN)
InvalidTime == -1
\* an absent timeslot or an absent / empty list
NoSlot == <<>>
\* an absent Date
NoTime == -2
\* Math.round of NaN
NaN == -1000

PaymentStatus == {"pending", "success", "failed", "refunded"}
BookingStatus == {"scheduled", "completed", "cancelled", "no-show"}
ZoomSessionStatus == {"scheduled", "ongoing", "completed"}

\* JavaScript truthiness of an optional string
Truthy(x) == x # None /\ x # ""

\* a || b
OrElseMutant(a, b) == b
OrElse(a, b) == IF Truthy(a) THEN a ELSE b

BookingIds == 1..MaxBookings
SessionIds == 1..MaxSessions

\* ------------------------------------------------------------------ state
VARIABLES
    bookings,            \* Booking collection: id -> document
    sessions,            \* ZoomSession collection: id -> document
    nextBookingId,       \* ids are never reused
    nextSessionId,
    secret,              \* ZOOM_WEBHOOK_SECRET_TOKEN ("" when not configured)
    stripUndefined,      \* whether the ODM drops undefined keys of an update
    req,                 \* the request handled by the last step
    resp,                \* its HTTP response
    calls,               \* provider calls issued while handling it
    completedSessions,   \* history: bookings whose Session was saved completed
    requestedCompleted,  \* history: bookings whose request carried completed
    inflight,            \* concurrent requests between two of their awaits
    nops,
    zoom                 \* the ZoomService singleton, its clock and provider

vars == <<bookings, sessions, nextBookingId, nextSessionId, secret,
          stripUndefined, req, resp, calls, completedSessions,
          requestedCompleted, inflight, nops, zoom>>

Procs == {1, 2}

\* ------------------------------------------------------- Booking schema
\* BookingSchema.pre("save"): TRUE when the hook calls next() without error
BookingPreSaveMutant(doc) == TRUE
BookingPreSave(doc) ==
    ~(Truthy(doc.zoomLink) /\ doc.paymentStatus # "success")

\* --------------------------------------------------- ZoomSession schema
\* BookingModel.findByIdAndUpdate(id, {bookingStatus, zoomRecordingLink});
\* skips the Booking save hooks; an undefined value is dropped from the
\* update or written as null, depending on the ODM
findByIdAndUpdateBooking(bks, id, recordingUrl, strip) ==
    IF id \notin DOMAIN bks THEN bks
    ELSE [bks EXCEPT
            ![id].bookingStatus = "completed",
            ![id].zoomRecordingLink =
                IF recordingUrl = None
                THEN (IF strip THEN bks[id].zoomRecordingLink ELSE None)
                ELSE recordingUrl]

\* ZoomSessionSchema.post("save")
ZoomSessionPostSaveMutant(bks, doc, strip) ==
    findByIdAndUpdateBooking(bks, doc.bookingId, doc.recordingUrl, strip)
ZoomSessionPostSave(bks, doc, strip) ==
    IF doc.status = "completed"
    THEN findByIdAndUpdateBooking(bks, doc.bookingId, doc.recordingUrl, strip)
    ELSE bks

\* collection with document doc stored at id
Put(coll, id, doc) ==
    [i \in DOMAIN coll \cup {id} |-> IF i = id THEN doc ELSE coll[i]]

Remove(coll, id) == [i \in DOMAIN coll \ {id} |-> coll[i]]

\* ZoomSessionModel.findOne({ bookingId }): ids of the matching documents
SessionsOfBookingMutant(ss, bookingId) == {}
SessionsOfBooking(ss, bookingId) ==
    {s \in DOMAIN ss : ss[s].bookingId = bookingId}

\* ZoomSessionModel.findOne({ meetingId })
SessionsOfMeetingMutant(ss, meetingId) == DOMAIN ss
SessionsOfMeeting(ss, meetingId) ==
    {s \in DOMAIN ss : ss[s].meetingId = meetingId}

\* findOne returns the first match in natural (insertion) order
First(S) == CHOOSE s \in S : \A t \in S : s <= t

\* ------------------------------------------------------------- durations
\* new Date(x).getTime(), instants counted in units of 30 seconds
GetTime(t) == t

\* Math.round((end - start) / (1000 * 60)), halves round towards +infinity
DurationMinutes(start, end) ==
    IF start = InvalidTime \/ end = InvalidTime THEN NaN
    ELSE ((GetTime(end) - GetTime(start)) + 1) \div 2

\* durationMinutes >= 1 (false for NaN)
AtLeastOneMinuteMutant(d) == FALSE
AtLeastOneMinute(d) == d # NaN /\ d >= 1
\* durationMinutes < 1 (false for NaN)
BelowOneMinuteMutant(d) == FALSE
BelowOneMinute(d) == d # NaN /\ d < 1

\* --------------------------------------------------------------- provider
MeetingIds == {"m1", "m2"}
\* outcome of a provider call that failed (after the client's own retry)
Fail == "fail"

\* join_url of the meeting the provider created
JoinUrlOf(meetingId) == IF meetingId = "m1" THEN "j1" ELSE "j2"

\* ------------------------------------------------------------- responses
\* result of a handler: the two collections, the HTTP status, provider calls
Result(bks, ss, status, cs) ==
    [bookings |-> bks, sessions |-> ss, status |-> status, calls |-> cs]

\* ZoomSession document.save(): write, then the post-save hook
SaveSession(bks, ss, id, doc, strip) ==
    [bookings |-> ZoomSessionPostSave(bks, doc, strip),
     sessions |-> Put(ss, id, doc)]

\* ------------------------------------------------- booking.controller.ts
\* fields of a request body that the validations look at:
\*   refs: "ok", "bad" (a missing or malformed field, 400) or
\*         "notfound" (user, sub-admin or service does not exist, 404)

\* createBooking, lines 186-254: the try block that schedules the meeting.
\* prov is the outcome of zoomService.createMeeting (Fail or the meeting id)
createBookingZoom(bks, ss, id, sid, body, prov, strip) ==
    LET start == body.timeslot[1]
        end == body.timeslot[2]
        durationMinutes == DurationMinutes(start, end)
        finalPaymentStatus == OrElse(body.paymentStatus, "pending")
    IN  IF BelowOneMinute(durationMinutes)
        THEN Result(bks, ss, 201, {})
        ELSE IF start = InvalidTime
        THEN Result(bks, ss, 201, {}) \* toISOString throws before the call
        ELSE IF prov = Fail \/ durationMinutes = NaN
        THEN Result(bks, ss, 201, {"createMeeting"})
        ELSE LET zoomSession == [bookingId |-> id, meetingId |-> prov,
                                 joinUrl |-> JoinUrlOf(prov),
                                 startTime |-> start, endTime |-> end,
                                 recordingUrl |-> None,
                                 status |-> "scheduled"]
                 saved == SaveSession(bks, ss, sid, zoomSession, strip)
                 linked == [saved.bookings[id] EXCEPT
                              !.zoomLink = JoinUrlOf(prov)]
             IN  IF finalPaymentStatus = "success" /\ BookingPreSave(linked)
                 THEN Result(Put(saved.bookings, id, linked), saved.sessions,
                             201, {"createMeeting"})
                 ELSE Result(saved.bookings, saved.sessions, 201,
                             {"createMeeting"})

\* createBooking, lines 16-371
createBooking(bks, ss, id, sid, body, prov, strip) ==
    IF body.refs = "bad" THEN Result(bks, ss, 400, {})
    ELSE IF body.refs = "notfound" THEN Result(bks, ss, 404, {})
    ELSE IF Truthy(body.paymentStatus)
            /\ body.paymentStatus \notin PaymentStatus
    THEN Result(bks, ss, 400, {})
    ELSE IF Truthy(body.bookingStatus)
            /\ body.bookingStatus \notin BookingStatus
    THEN Result(bks, ss, 400, {})
    ELSE IF Truthy(body.zoomLink)
            /\ OrElse(body.paymentStatus, "pending") # "success"
    THEN Result(bks, ss, 400, {})
    ELSE LET booking ==
                [paymentStatus |-> OrElse(body.paymentStatus, "pending"),
                 bookingStatus |-> OrElse(body.bookingStatus, "scheduled"),
                 zoomLink |-> body.zoomLink,
                 zoomRecordingLink |-> body.zoomRecordingLink,
                 timeslot |-> body.timeslot]
         IN  IF ~BookingPreSave(booking) THEN Result(bks, ss, 500, {})
             ELSE createBookingZoom(Put(bks, id, booking), ss, id, sid,
                                    body, prov, strip)

\* updateBooking, lines 577-727: the validated fields applied to the loaded
\* document; cleared tells whether `delete booking.zoomLink` removed the
\* stored value.  "reject" stands for the 400 answer of line 710.
applyBookingFields(booking, body, cleared) ==
    LET b1 == IF body.timeslot # NoSlot
              THEN [booking EXCEPT !.timeslot = body.timeslot] ELSE booking
        b2 == IF Truthy(body.paymentStatus)
              THEN [b1 EXCEPT !.paymentStatus = body.paymentStatus] ELSE b1
        b3 == IF Truthy(body.bookingStatus)
              THEN [b2 EXCEPT !.bookingStatus = body.bookingStatus] ELSE b2
        b4 == IF body.zoomLink = None THEN b3
              ELSE IF body.zoomLink = ""
              THEN (IF cleared THEN [b3 EXCEPT !.zoomLink = None] ELSE b3)
              ELSE [b3 EXCEPT !.zoomLink = body.zoomLink]
        b5 == IF body.zoomRecordingLink = None THEN b4
              ELSE IF body.zoomRecordingLink = ""
              THEN (IF cleared THEN [b4 EXCEPT !.zoomRecordingLink = None]
                    ELSE b4)
              ELSE [b4 EXCEPT !.zoomRecordingLink = body.zoomRecordingLink]
    IN  b5

\* updateBooking, lines 740-743: the payment status changed to success
movesToSuccessMutant(paymentStatus, originalPaymentStatus) == FALSE
movesToSuccess(paymentStatus, originalPaymentStatus) ==
    paymentStatus = "success" /\ originalPaymentStatus # "success"

\* updateBooking, lines 738-771: a Session exists for the booking.
\* booking is the document as saved at line 729; prov is the outcome of
\* zoomService.updateMeeting ("ok" or Fail)
updateBookingExisting(bks, ss, id, booking, original, body, sid, prov, strip) ==
    LET existing == ss[sid]
        toSuccess == movesToSuccess(body.paymentStatus, original)
        linked == [booking EXCEPT !.zoomLink = existing.joinUrl]
        \* second booking.save(); its pre-save error ends the try block
        saveFails == toSuccess /\ ~BookingPreSave(linked)
        bks1 == IF toSuccess /\ ~saveFails THEN Put(bks, id, linked) ELSE bks
        hasSlot == body.timeslot # NoSlot
        durationMinutes ==
            DurationMinutes(body.timeslot[1], body.timeslot[2])
    IN  IF saveFails \/ ~hasSlot
        THEN Result(bks1, ss, 200, {})
        ELSE IF ~AtLeastOneMinute(durationMinutes)
        THEN Result(bks1, ss, 200, {})
        ELSE IF prov = Fail
        THEN Result(bks1, ss, 200, {"updateMeeting"})
        ELSE LET moved == [existing EXCEPT
                             !.startTime = body.timeslot[1],
                             !.endTime = body.timeslot[2]]
                 saved == SaveSession(bks1, ss, sid, moved, strip)
             IN  Result(saved.bookings, saved.sessions, 200,
                        {"updateMeeting"})

\* updateBooking, lines 772-831: no Session exists and the request carries
\* paymentStatus = success; prov is the outcome of createMeeting
updateBookingBackfill(bks, ss, id, booking, newSid, prov, strip) ==
    LET start == booking.timeslot[1]
        end == booking.timeslot[2]
        durationMinutes == DurationMinutes(start, end)
    IN  IF ~AtLeastOneMinute(durationMinutes)
        THEN Result(bks, ss, 200, {})
        ELSE IF prov = Fail
        THEN Result(bks, ss, 200, {"createMeeting"})
        ELSE LET newZoomSession ==
                    [bookingId |-> id, meetingId |-> prov,
                     joinUrl |-> JoinUrlOf(prov),
                     startTime |-> start, endTime |-> end,
                     recordingUrl |-> None, status |-> "scheduled"]
                 saved == SaveSession(bks, ss, newSid, newZoomSession, strip)
                 linked == [booking EXCEPT !.zoomLink = JoinUrlOf(prov)]
             IN  IF BookingPreSave(linked)
                 THEN Result(Put(saved.bookings, id, linked), saved.sessions,
                             200, {"createMeeting"})
                 ELSE Result(saved.bookings, saved.sessions, 200,
                             {"createMeeting"})

\* updateBooking, lines 731-838: the try block that follows the save
updateBookingZoomMutant(bks, ss, id, bk, orig, body, sid, prov, strip) ==
    IF prov = Fail THEN Result(bks, ss, 500, {}) ELSE Result(bks, ss, 200, {})
updateBookingZoom(bks, ss, id, booking, original, body, newSid, prov, strip) ==
    LET found == SessionsOfBooking(ss, id)
    IN  IF found # {}
        THEN updateBookingExisting(bks, ss, id, booking, original, body,
                                   First(found), prov, strip)
        ELSE IF body.paymentStatus = "success"
        THEN updateBookingBackfill(bks, ss, id, booking, newSid, prov, strip)
        ELSE Result(bks, ss, 200, {})

\* updateBooking, lines 541-729: validation and the first booking.save();
\* a status of 0 means that the handler goes on to the try block
updateBookingSaveMutant(bks, ss, id, body, cleared) ==
    IF id \notin DOMAIN bks THEN Result(bks, ss, 404, {})
    ELSE IF body.refs # "ok" THEN Result(bks, ss, 400, {})
    ELSE Result(Put(bks, id, applyBookingFields(bks[id], body, cleared)),
                ss, 400, {})
updateBookingSave(bks, ss, id, body, cleared) ==
    IF id \notin DOMAIN bks THEN Result(bks, ss, 404, {})
    ELSE IF body.refs = "bad" THEN Result(bks, ss, 400, {})
    ELSE IF body.refs = "notfound" THEN Result(bks, ss, 404, {})
    ELSE IF Truthy(body.paymentStatus)
            /\ body.paymentStatus \notin PaymentStatus
    THEN Result(bks, ss, 400, {})
    ELSE IF Truthy(body.bookingStatus)
            /\ body.bookingStatus \notin BookingStatus
    THEN Result(bks, ss, 400, {})
    ELSE LET booking == applyBookingFields(bks[id], body, cleared)
         IN  IF Truthy(body.zoomLink) /\ booking.paymentStatus # "success"
             THEN Result(bks, ss, 400, {})
             ELSE IF ~BookingPreSave(booking)
             THEN Result(bks, ss, 500, {})   \* caught at line 851
             ELSE Result(Put(bks, id, booking), ss, 0, {})

\* updateBooking, lines 541-859
updateBooking(bks, ss, id, body, cleared, newSid, prov, strip) ==
    LET first == updateBookingSave(bks, ss, id, body, cleared)
    IN  IF first.status # 0 THEN first
        ELSE updateBookingZoom(first.bookings, ss, id, first.bookings[id],
                               bks[id].paymentStatus, body, newSid, prov,
                               strip)

\* deleteBooking, lines 878-897: the Session of the booking is looked up,
\* deleteMeeting is called and the Session is deleted, in the try block
\* when the call returned and in the catch block when it threw.  prov is
\* the outcome of zoomService.deleteMeeting ("ok" or Fail)
deleteBookingSessionMutant(ss, id, prov) ==
    LET found == SessionsOfBooking(ss, id)
    IN  IF found = {} THEN [sessions |-> ss, calls |-> {}]
        ELSE IF prov = Fail
        THEN [sessions |-> ss, calls |-> {"deleteMeeting"}]
        ELSE [sessions |-> Remove(ss, First(found)),
              calls |-> {"deleteMeeting"}]
deleteBookingSession(ss, id, prov) ==
    LET found == SessionsOfBooking(ss, id)
    IN  IF found = {} THEN [sessions |-> ss, calls |-> {}]
        ELSE IF prov = Fail
        THEN [sessions |-> Remove(ss, First(found)),
              calls |-> {"deleteMeeting"}]
        ELSE [sessions |-> Remove(ss, First(found)),
              calls |-> {"deleteMeeting"}]

\* deleteBooking, lines 862-926
deleteBooking(bks, ss, id, prov) ==
    LET first == deleteBookingSession(ss, id, prov)
    IN  IF id \notin DOMAIN bks
        THEN Result(bks, first.sessions, 404, first.calls)
        ELSE Result(Remove(bks, id), first.sessions, 200, first.calls)

\* --------------------------------------------- zoomSession.controller.ts
\* createZoomSession, lines 8-134
createZoomSession(bks, ss, sid, body, strip) ==
    IF body.refs = "bad" THEN Result(bks, ss, 400, {})
    ELSE IF body.bookingId \notin DOMAIN bks THEN Result(bks, ss, 404, {})
    ELSE IF body.endTime # NoTime /\ body.endTime <= body.startTime
    THEN Result(bks, ss, 400, {})
    ELSE IF Truthy(body.status) /\ body.status \notin ZoomSessionStatus
    THEN Result(bks, ss, 400, {})
    ELSE IF SessionsOfBooking(ss, body.bookingId) # {}
    THEN Result(bks, ss, 409, {})
    ELSE LET zoomSession ==
                [bookingId |-> body.bookingId, meetingId |-> body.meetingId,
                 joinUrl |-> body.joinUrl, startTime |-> body.startTime,
                 endTime |-> body.endTime,
                 recordingUrl |-> body.recordingUrl,
                 status |-> OrElse(body.status, "scheduled")]
             saved == SaveSession(bks, ss, sid, zoomSession, strip)
         IN  Result(saved.bookings, saved.sessions, 201, {})

\* updateZoomSession, lines 244-392; absent body fields are None / NoTime,
\* an absent bookingId is 0
updateZoomSession(bks, ss, id, body, strip) ==
    IF id \notin DOMAIN ss THEN Result(bks, ss, 404, {})
    ELSE IF body.bookingId # 0 /\ body.bookingId \notin DOMAIN bks
    THEN Result(bks, ss, 404, {})
    ELSE IF body.bookingId # 0
            /\ SessionsOfBooking(ss, body.bookingId) \ {id} # {}
    THEN Result(bks, ss, 409, {})
    ELSE LET z1 == IF body.bookingId # 0
                   THEN [ss[id] EXCEPT !.bookingId = body.bookingId]
                   ELSE ss[id]
             z2 == IF body.startTime # NoTime
                   THEN [z1 EXCEPT !.startTime = body.startTime] ELSE z1
             endBad == body.endTime # NoTime /\ body.endTime <= z2.startTime
             z3 == IF body.endTime # NoTime
                   THEN [z2 EXCEPT !.endTime = body.endTime] ELSE z2
             statusBad == Truthy(body.status)
                          /\ body.status \notin ZoomSessionStatus
             z4 == IF Truthy(body.status)
                   THEN [z3 EXCEPT !.status = body.status] ELSE z3
             z5 == IF body.meetingId # None
                   THEN [z4 EXCEPT !.meetingId = body.meetingId] ELSE z4
             z6 == IF body.joinUrl # None
                   THEN [z5 EXCEPT !.joinUrl = body.joinUrl] ELSE z5
             z7 == IF body.recordingUrl # None
                   THEN [z6 EXCEPT !.recordingUrl = body.recordingUrl]
                   ELSE z6
             saved == SaveSession(bks, ss, id, z7, strip)
         IN  IF endBad \/ statusBad THEN Result(bks, ss, 400, {})
             ELSE Result(saved.bookings, saved.sessions, 200, {})

\* deleteZoomSession, lines 395-438
deleteZoomSession(bks, ss, id) ==
    IF id \notin DOMAIN ss THEN Result(bks, ss, 404, {})
    ELSE Result(bks, Remove(ss, id), 200, {})

\* ------------------------------------------------- webhook.controller.ts
\* Strings that are hashed or compared are sequences of character codes.
HashMod == 16

EventCode(event) ==
    CASE event = "endpoint.url_validation" -> 1
      [] event = "recording.completed" -> 2
      [] event = "meeting.ended" -> 3
      [] event = "meeting.started" -> 4
      [] OTHER -> 5

MeetingCode(meetingId) ==
    CASE meetingId = "m1" -> 1 [] meetingId = "m2" -> 2 [] OTHER -> 0

\* JSON.stringify(req.body): the event, the meeting id and one code per
\* embedded recording file
Stringify(body) ==
    <<EventCode(body.event), MeetingCode(body.meetingId)>>
        \o [i \in 1..Len(body.recording_files) |->
              IF body.recording_files[i].file_type = "MP4" THEN 7 ELSE 8]

RECURSIVE WeightedSum(_, _)
WeightedSum(msg, i) ==
    IF i > Len(msg) THEN 0 ELSE i * msg[i] + WeightedSum(msg, i + 1)

\* crypto.createHmac("sha256", key).update(message).digest("hex"): a keyed
\* digest of fixed length (two digits)
KeyCode(key) ==
    IF key = "s1" THEN 5 ELSE IF key = "default-secret" THEN 7 ELSE 11

HmacHex(key, message) ==
    LET h == (KeyCode(key) + 3 * WeightedSum(message, 1)) % HashMod
    IN  <<h \div 4, h % 4>>

\* the text "v0=" and the text "v0:"
V0Eq == <<9, 9>>
V0Colon == <<9>>

\* `v0=${hash}` of `v0:${timestamp}:${payload}`
ExpectedSignature(key, payload, timestamp) ==
    V0Eq \o HmacHex(key, V0Colon \o <<timestamp>> \o payload)

\* crypto.timingSafeEqual: throws (RangeError) on buffers of different
\* length
timingSafeEqual(a, b) ==
    IF Len(a) # Len(b) THEN "throw"
    ELSE IF a = b THEN "true" ELSE "false"

\* verifyWebhookSignature, lines 17-40: "true", "false" or "throw"
verifyWebhookSignature(key, payload, signature, timestamp) ==
    IF key = "" THEN "true"
    ELSE timingSafeEqual(signature,
                         ExpectedSignature(key, payload, timestamp))

\* recordingFile = files.find(MP4 or M4A) || files[0];
\* recordingUrl = recordingFile.play_url || recordingFile.download_url
SelectRecordingUrlMutant(files) == IF files = <<>> THEN None ELSE OrElse(files[1].play_url, files[1].download_url)
SelectRecordingUrl(files) ==
    IF files = <<>> THEN None
    ELSE LET primary == {i \in 1..Len(files) :
                            files[i].file_type \in {"MP4", "M4A"}}
             recordingFile == IF primary # {} THEN files[First(primary)]
                              ELSE files[1]
         IN  IF Truthy(recordingFile.play_url) THEN recordingFile.play_url
             ELSE IF Truthy(recordingFile.download_url)
             THEN recordingFile.download_url
             ELSE None

\* handleRecordingCompleted, lines 249-265: the fields set before save()
completeSessionMutant(doc, recordingUrl) ==
    [doc EXCEPT !.recordingUrl = recordingUrl, !.status = "completed"]
completeSessionPending(doc, recordingUrl) ==
    IF recordingUrl # None
    THEN [doc EXCEPT !.recordingUrl = recordingUrl, !.status = "completed"]
    ELSE doc
completeSession(doc, recordingUrl) ==
    IF recordingUrl # None
    THEN [doc EXCEPT !.recordingUrl = recordingUrl, !.status = "completed"]
    ELSE [doc EXCEPT !.status = "completed"]

\* handleRecordingCompleted, lines 180-270.  api is the outcome of
\* getMeetingRecordings: Fail, or the list of recording files
handleRecordingCompleted(bks, ss, body, api, strip) ==
    IF body.meetingId = None THEN Result(bks, ss, 200, {})
    ELSE LET found == SessionsOfMeeting(ss, body.meetingId)
         IN  IF found = {} THEN Result(bks, ss, 200, {})
             ELSE LET id == First(found)
                      fromApi == IF api.ok
                                 THEN SelectRecordingUrl(api.recording_files)
                                 ELSE None
                      recordingUrl ==
                          IF fromApi # None THEN fromApi
                          ELSE SelectRecordingUrl(body.recording_files)
                      zoomSession == completeSession(ss[id], recordingUrl)
                      saved == SaveSession(bks, ss, id, zoomSession, strip)
                  IN  Result(saved.bookings, saved.sessions, 200,
                             {"getMeetingRecordings"})

\* handleMeetingEnded, lines 276-299; now is the value of new Date()
handleMeetingEndedMutant(bks, ss, body, now, strip) ==
    IF body.meetingId = None THEN Result(bks, ss, 200, {})
    ELSE LET found == SessionsOfMeeting(ss, body.meetingId)
         IN  IF found = {} THEN Result(bks, ss, 200, {})
             ELSE LET id == First(found)
                      zoomSession == [ss[id] EXCEPT !.endTime = now,
                                                    !.status = "completed"]
                      saved == SaveSession(bks, ss, id, zoomSession, strip)
                  IN  Result(saved.bookings, saved.sessions, 200, {})
handleMeetingEnded(bks, ss, body, now, strip) ==
    IF body.meetingId = None THEN Result(bks, ss, 200, {})
    ELSE LET found == SessionsOfMeeting(ss, body.meetingId)
         IN  IF found = {} THEN Result(bks, ss, 200, {})
             ELSE LET id == First(found)
                      zoomSession == [ss[id] EXCEPT !.endTime = now]
                      saved == SaveSession(bks, ss, id, zoomSession, strip)
                  IN  Result(saved.bookings, saved.sessions, 200, {})

\* handleMeetingStarted, lines 305-329
handleMeetingStarted(bks, ss, body, strip) ==
    IF body.meetingId = None THEN Result(bks, ss, 200, {})
    ELSE LET found == SessionsOfMeeting(ss, body.meetingId)
         IN  IF found = {} THEN Result(bks, ss, 200, {})
             ELSE LET id == First(found)
                      zoomSession == [ss[id] EXCEPT !.status = "ongoing"]
                      saved == SaveSession(bks, ss, id, zoomSession, strip)
                  IN  Result(saved.bookings, saved.sessions, 200, {})

\* handleWebhookEvent, lines 140-164: the dispatch on the event type
dispatchWebhookEvent(bks, ss, body, api, now, strip) ==
    CASE body.event = "recording.completed" ->
            handleRecordingCompleted(bks, ss, body, api, strip)
      [] body.event = "meeting.ended" ->
            handleMeetingEnded(bks, ss, body, now, strip)
      [] body.event = "meeting.started" ->
            handleMeetingStarted(bks, ss, body, strip)
      [] OTHER -> Result(bks, ss, 200, {})

\* payload.plainToken as parsed from the JSON body: absent, a string, or a
\* JSON number
NumberToken == "123 (a number)"
PlainTokens == {None, "", "tok", NumberToken}

\* hmac.update(data) accepts a string or a buffer and throws on the rest
UpdateAccepts(data) == data # NumberToken

\* the characters of a plain token
TokenCodes(token) == IF token = "tok" THEN <<1, 2>> ELSE <<3>>

\* handleWebhookVerification, lines 70-81: the body of the 200 answer,
\* <<plainToken, encryptedToken>>
verificationAnswer(key, plainToken) ==
    <<plainToken,
      HmacHex(OrElse(key, "default-secret"), TokenCodes(plainToken))>>

\* handleWebhookVerification, lines 47-98
handleWebhookVerification(bks, ss, body) ==
    IF body.event = "endpoint.url_validation"
    THEN (IF ~Truthy(body.plainToken) THEN Result(bks, ss, 400, {})
          ELSE IF ~UpdateAccepts(body.plainToken)
          THEN Result(bks, ss, 500, {})          \* caught at line 90
          ELSE Result(bks, ss, 200, {}))
    ELSE Result(bks, ss, 400, {})

\* handleWebhookEvent, lines 104-174.  headers.signature is <<>> and
\* headers.timestamp is 0 when the header is absent
handleWebhookEvent(bks, ss, key, body, headers, api, now, strip) ==
    IF body.event = "endpoint.url_validation"
    THEN handleWebhookVerification(bks, ss, body)
    ELSE IF headers.signature # <<>> /\ headers.timestamp # 0
    THEN LET isValid == verifyWebhookSignature(key, Stringify(body),
                                               headers.signature,
                                               headers.timestamp)
         IN  IF isValid = "throw" THEN Result(bks, ss, 200, {})
             ELSE IF isValid = "false" THEN Result(bks, ss, 401, {})
             ELSE dispatchWebhookEvent(bks, ss, body, api, now, strip)
    ELSE dispatchWebhookEvent(bks, ss, body, api, now, strip)

\* ================================================================ inputs
MaxTime == 1
Times == 0..MaxTime

\* recording files
Mp4R1 == [file_type |-> "MP4", play_url |-> "r1", download_url |-> "d1"]
ChatR2 == [file_type |-> "CHAT", play_url |-> None, download_url |-> "r2"]

\* outcomes of zoomService.getMeetingRecordings
ApiFailed == [ok |-> FALSE, recording_files |-> <<>>]
ApiFiles(files) == [ok |-> TRUE, recording_files |-> files]

\* the secret the provider signs with
ProviderSecret == "s1"

\* the signature header a sender attaches: none, the provider's signature,
\* a forged one of the same length, a forged one of another length
SignatureKinds == {"none", "valid", "forged", "short"}

SignatureOf(kind, body, timestamp) ==
    LET good == ExpectedSignature(ProviderSecret, Stringify(body), timestamp)
    IN  CASE kind = "none" -> <<>>
          [] kind = "valid" -> good
          [] kind = "forged" ->
                [good EXCEPT ![Len(good)] = (good[Len(good)] + 1) % 4]
          [] OTHER -> SubSeq(good, 1, Len(good) - 1)

\* ================================================================ actions
Idle == [pc |-> "idle"]

\* ------------------------------------------------------- zoomService.ts
MaxClock == 2
MaxCalls == 2

\* this.accessToken = null
NoToken == 0

\* expires_in of a token response, in seconds
ExpiresIn == {60, 61}

\* new ZoomService(), lines 132-161, with the clock at 0 and a provider that
\* has issued nothing; credentials tells whether the three settings are set
ZoomService(credentials) ==
    [accessToken |-> NoToken, tokenExpiry |-> 0, credentials |-> credentials,
     now |-> 0, tokenRequests |-> 0, issued |-> <<>>, cachedAt |-> <<>>,
     started |-> 0]

\* getAccessToken, lines 169-171: the cached token is still good
cachedTokenValidMutant(accessToken, tokenExpiry, now) == FALSE
cachedTokenValid(accessToken, tokenExpiry, now) ==
    accessToken # NoToken /\ now < tokenExpiry

\* getAccessToken, lines 167-186, up to its await: "cached" returns the
\* cached token, "missing" throws for absent credentials, "exchange" posts
\* the token request
getAccessToken(z) ==
    IF cachedTokenValid(z.accessToken, z.tokenExpiry, z.now) THEN "cached"
    ELSE IF ~z.credentials THEN "missing"
    ELSE "exchange"

\* getAccessToken, lines 208-209: the token and the expiry written together
\* from one response; [accessToken, tokenExpiry] after the write
cacheTokenNoMargin(accessToken, tokenExpiry, now, token, expiresIn) == <<token, now + expiresIn * 1000>>
cacheTokenMutant(accessToken, tokenExpiry, now, token, expiresIn) == <<token, IF tokenExpiry > now THEN tokenExpiry ELSE now>>
cacheToken(accessToken, tokenExpiry, now, token, expiresIn) ==
    <<token, now + (expiresIn - 60) * 1000>>

\* makeAuthenticatedRequest, lines 245-268: what follows a response to the
\* request; retry tells whether the request was already the retry
afterResponseMutant(status, retry) == IF status = 200 THEN "return" ELSE IF status = 401 THEN "retry" ELSE "ZoomApiError"
afterResponse(status, retry) ==
    IF status = 200 THEN "return"
    ELSE IF retry THEN "AxiosError"
    ELSE IF status = 401 THEN "retry"
    ELSE "ZoomApiError"

InitStores ==
    /\ bookings = <<>>
    /\ sessions = <<>>
    /\ nextBookingId = 1
    /\ nextSessionId = 1
    /\ secret \in {"", ProviderSecret}
    /\ stripUndefined \in BOOLEAN
    /\ req = [op |-> "none"]
    /\ resp = [status |-> 0]
    /\ calls = {}
    /\ completedSessions = {}
    /\ requestedCompleted = {}
    /\ inflight = [p \in Procs |-> Idle]
    /\ nops = 0

Init == InitStores /\ zoom = ZoomService(TRUE)

\* bookings that own a Session stored with status completed
OwnersOfCompleted(ss) ==
    {ss[s].bookingId : s \in {t \in DOMAIN ss : ss[t].status = "completed"}}

\* the effect of a handler that answered with result r; request is what
\* the properties need to know of the request
Respond(r, request, askedCompleted) ==
    /\ nops < MaxOps
    /\ bookings' = r.bookings
    /\ sessions' = r.sessions
    /\ nextBookingId' =
          IF DOMAIN r.bookings \subseteq 1..(nextBookingId - 1)
          THEN nextBookingId ELSE nextBookingId + 1
    /\ nextSessionId' =
          IF DOMAIN r.sessions \subseteq 1..(nextSessionId - 1)
          THEN nextSessionId ELSE nextSessionId + 1
    /\ req' = request
    /\ resp' = [status |-> r.status]
    /\ calls' = r.calls
    /\ completedSessions' =
          completedSessions \cup OwnersOfCompleted(r.sessions)
    /\ requestedCompleted' = requestedCompleted \cup askedCompleted
    /\ nops' = nops + 1
    /\ UNCHANGED <<zoom, secret, stripUndefined>>

\* the body passes the validations of createBooking, lines 35-164
WellFormedBooking(body) ==
    /\ body.refs = "ok"
    /\ ~(Truthy(body.paymentStatus) /\ body.paymentStatus \notin PaymentStatus)
    /\ ~(Truthy(body.bookingStatus) /\ body.bookingStatus \notin BookingStatus)
    /\ ~(Truthy(body.zoomLink)
           /\ OrElse(body.paymentStatus, "pending") # "success")

CreateBooking(body, prov) ==
    /\ nextBookingId <= MaxBookings
    /\ nextSessionId <= MaxSessions
    /\ LET r == createBooking(bookings, sessions, nextBookingId,
                              nextSessionId, body, prov, stripUndefined)
       IN  Respond(r, [op |-> "createBooking", id |-> nextBookingId,
                       valid |-> WellFormedBooking(body),
                       paymentStatus |-> body.paymentStatus,
                       zoomLink |-> body.zoomLink,
                       timeslot |-> body.timeslot,
                       provider |-> prov],
                   IF r.status = 201 /\ body.bookingStatus = "completed"
                   THEN {nextBookingId} ELSE {})
    /\ UNCHANGED inflight

\* the record an updateBooking request asks for has a link while its
\* payment status is not success
BreaksLinkGate(bks, id, body, cleared) ==
    /\ id \in DOMAIN bks
    /\ body.refs = "ok"
    /\ LET asked == applyBookingFields(bks[id], body, cleared)
       IN  Truthy(asked.zoomLink) /\ asked.paymentStatus # "success"

\* the body passes the validations of updateBooking, lines 558-718
WellFormedUpdate(bks, id, body) ==
    /\ id \in DOMAIN bks
    /\ body.refs = "ok"
    /\ ~(Truthy(body.paymentStatus) /\ body.paymentStatus \notin PaymentStatus)
    /\ ~(Truthy(body.bookingStatus) /\ body.bookingStatus \notin BookingStatus)
    /\ ~(Truthy(body.zoomLink)
           /\ OrElse(body.paymentStatus, bks[id].paymentStatus) # "success")

UpdateBooking(id, body, cleared, prov) ==
    /\ nextSessionId <= MaxSessions
    /\ LET r == updateBooking(bookings, sessions, id, body, cleared,
                              nextSessionId, prov, stripUndefined)
       IN  Respond(r, [op |-> "updateBooking", id |-> id,
                       breaksGate |->
                           BreaksLinkGate(bookings, id, body, cleared),
                       valid |-> WellFormedUpdate(bookings, id, body),
                       paymentStatus |-> body.paymentStatus,
                       bookingStatus |-> body.bookingStatus,
                       timeslot |-> body.timeslot,
                       provider |-> prov],
                   IF r.status = 200 /\ body.bookingStatus = "completed"
                   THEN {id} ELSE {})
    /\ UNCHANGED inflight

DeleteBooking(id, prov) ==
    /\ Respond(deleteBooking(bookings, sessions, id, prov),
               [op |-> "deleteBooking", id |-> id], {})
    /\ UNCHANGED inflight

\* the body passes the validations of createZoomSession, lines 24-91
WellFormedSession(bks, body) ==
    /\ body.refs = "ok"
    /\ body.bookingId \in DOMAIN bks
    /\ ~(body.endTime # NoTime /\ body.endTime <= body.startTime)
    /\ ~(Truthy(body.status) /\ body.status \notin ZoomSessionStatus)

CreateZoomSession(body) ==
    /\ nextSessionId <= MaxSessions
    /\ Respond(createZoomSession(bookings, sessions, nextSessionId, body,
                                 stripUndefined),
               [op |-> "createZoomSession", id |-> nextSessionId,
                bookingId |-> body.bookingId,
                valid |-> WellFormedSession(bookings, body)], {})
    /\ UNCHANGED inflight

UpdateZoomSession(id, body) ==
    /\ Respond(updateZoomSession(bookings, sessions, id, body,
                                 stripUndefined),
               [op |-> "updateZoomSession", id |-> id,
                bookingId |-> body.bookingId], {})
    /\ UNCHANGED inflight

DeleteZoomSession(id) ==
    /\ Respond(deleteZoomSession(bookings, sessions, id),
               [op |-> "deleteZoomSession", id |-> id], {})
    /\ UNCHANGED inflight

\* the recording URL a recording.completed handler would derive
DerivedRecordingUrl(body, api) ==
    LET fromApi == IF api.ok THEN SelectRecordingUrl(api.recording_files)
                   ELSE None
    IN  IF fromApi # None THEN fromApi
        ELSE SelectRecordingUrl(body.recording_files)

\* the event got past verification and reached the switch of line 143
Dispatched(key, body, headers) ==
    /\ body.event # "endpoint.url_validation"
    /\ \/ headers.signature = <<>>
       \/ headers.timestamp = 0
       \/ verifyWebhookSignature(key, Stringify(body), headers.signature,
                                 headers.timestamp) = "true"

\* this recording.completed event follows a handled recording.completed
\* event for the same meeting and brings the same recording URL or none
RepeatsCompletion(last, body, url, dispatched) ==
    /\ last.op = "webhook"
    /\ last.event = "recording.completed"
    /\ last.dispatched
    /\ last.meetingId # None
    /\ body.event = "recording.completed"
    /\ dispatched
    /\ body.meetingId = last.meetingId
    /\ url \in {last.recordingUrl, None}

HandleWebhookEvent(body, kind, timestamp, api, now) ==
    /\ LET headers == [signature |-> SignatureOf(kind, body, timestamp),
                       timestamp |-> timestamp]
           url == DerivedRecordingUrl(body, api)
           dispatched == Dispatched(secret, body, headers)
       IN  Respond(handleWebhookEvent(bookings, sessions, secret, body,
                                      headers, api, now, stripUndefined),
                   [op |-> "webhook", event |-> body.event,
                    meetingId |-> body.meetingId,
                    plainToken |-> body.plainToken,
                    now |-> now,
                    signature |-> IF timestamp = 0 THEN "none" ELSE kind,
                    recordingUrl |-> url,
                    dispatched |-> dispatched,
                    repeat |-> RepeatsCompletion(req, body, url, dispatched)],
                   {})
    /\ UNCHANGED inflight

\* -------------------------------------------- booking orchestration runs
BookingFields(payments, statuses, links, slots) ==
    [refs : {"ok"}, paymentStatus : payments, bookingStatus : statuses,
     zoomLink : links, zoomRecordingLink : {None}, timeslot : slots]

BadBody == [refs |-> "bad", paymentStatus |-> None, bookingStatus |-> None,
            zoomLink |-> None, zoomRecordingLink |-> None,
            timeslot |-> NoSlot]

CreateBookingBodies ==
    {BadBody} \cup BookingFields({None, "success"}, {None, "completed"},
                                 {None, "x"}, {<<0, 1>>})

UpdateBookingBodies ==
    {BadBody} \cup BookingFields({None, "success", "refunded"},
                                 {None, "completed"}, {None, "", "x"},
                                 {NoSlot})

RecordingCompleted(meetingId, files) ==
    [event |-> "recording.completed", meetingId |-> meetingId,
     recording_files |-> files, plainToken |-> None]

Next ==
    \/ \E body \in CreateBookingBodies, prov \in {"m1", Fail} :
          CreateBooking(body, prov)
    \/ \E id \in BookingIds, body \in UpdateBookingBodies,
          prov \in {"m1", Fail} :
          \E cleared \in IF body.zoomLink = "" THEN BOOLEAN ELSE {FALSE} :
              UpdateBooking(id, body, cleared, prov)
    \/ \E api \in {ApiFailed, ApiFiles(<<Mp4R1>>)} :
          HandleWebhookEvent(RecordingCompleted("m1", <<>>), "none", 0,
                             api, 0)

Spec == Init /\ [][Next]_vars

\* ---------------------------------------------- session lifecycle runs
\* a booking with or without a recording link of its own, unpaid
PlainBooking(recording) ==
    [refs |-> "ok", paymentStatus |-> None, bookingStatus |-> None,
     zoomLink |-> None, zoomRecordingLink |-> recording,
     timeslot |-> <<0, 1>>]

\* an update that moves the time window, with or without marking it paid
MoveBooking(payment) ==
    [refs |-> "ok", paymentStatus |-> payment, bookingStatus |-> None,
     zoomLink |-> None, zoomRecordingLink |-> None, timeslot |-> <<0, 1>>]

SessionBodies ==
    [refs : {"ok"}, bookingId : BookingIds, meetingId : {"m1"},
     joinUrl : {"j1"}, startTime : {0}, endTime : {NoTime},
     recordingUrl : {None, "r1"}, status : {None, "completed"}]
    \cup
    [refs : {"bad"}, bookingId : {1}, meetingId : {"m1"},
     joinUrl : {"j1"}, startTime : {0}, endTime : {NoTime},
     recordingUrl : {None}, status : {None}]

SessionUpdates ==
    [bookingId : {0} \cup BookingIds, meetingId : {None}, joinUrl : {None},
     startTime : {NoTime}, endTime : {NoTime}, recordingUrl : {None},
     status : {None, "completed"}]

MeetingEvent(event, meetingId) ==
    [event |-> event, meetingId |-> meetingId, recording_files |-> <<>>,
     plainToken |-> None]

NextSession ==
    \/ \E recording \in {None, "r2"}, prov \in {"m1", Fail} :
          CreateBooking(PlainBooking(recording), prov)
    \/ \E id \in BookingIds, payment \in {None, "success"},
          prov \in {"m1", Fail} :
          UpdateBooking(id, MoveBooking(payment), FALSE, prov)
    \/ \E id \in BookingIds, prov \in {"ok", Fail} : DeleteBooking(id, prov)
    \/ \E body \in SessionBodies : CreateZoomSession(body)
    \/ \E id \in SessionIds, body \in SessionUpdates :
          UpdateZoomSession(id, body)
    \/ \E id \in SessionIds : DeleteZoomSession(id)
    \/ \E meetingId \in {"m1", "m2"}, files \in {<<>>, <<ChatR2>>},
          api \in {ApiFailed, ApiFiles(<<>>), ApiFiles(<<Mp4R1>>)} :
          HandleWebhookEvent(RecordingCompleted(meetingId, files), "none",
                             0, api, 0)
    \/ \E event \in {"meeting.ended", "meeting.started", "meeting.updated"},
          meetingId \in {"m1", None}, now \in Times :
          HandleWebhookEvent(MeetingEvent(event, meetingId), "none", 0,
                             ApiFailed, now)

SpecSession == Init /\ [][NextSession]_vars

\* -------------------------------------------------- booking creation runs
\* timeslots of 0 and 30 seconds and timeslots with a text that does not
\* parse as a date
CreateSlots == {<<0, 0>>, <<0, 1>>, <<InvalidTime, 1>>, <<0, InvalidTime>>}

NextCreate ==
    \/ \E body \in {BadBody}
                    \cup BookingFields({None, "success"}, {None},
                                       {None, "x"}, CreateSlots),
          prov \in {"m1", Fail} :
          CreateBooking(body, prov)
    \/ \E id \in BookingIds, prov \in {"ok", Fail} : DeleteBooking(id, prov)

SpecCreate == Init /\ [][NextCreate]_vars

\* ---------------------------------------------------- booking update runs
\* no new time window, a window of 60 seconds, an empty window
UpdateSlots == {NoSlot, <<0, 2>>, <<1, 1>>}

NextUpdate ==
    \/ \E payment \in {None, "success"}, prov \in {"m1", Fail} :
          CreateBooking([PlainBooking(None) EXCEPT !.paymentStatus = payment],
                        prov)
    \/ \E id \in BookingIds,
          body \in {BadBody}
                   \cup BookingFields({None, "success"}, {None, "cancelled"},
                                      {None}, UpdateSlots),
          prov \in {"m2", Fail} :
          UpdateBooking(id, body, FALSE, prov)
    \/ HandleWebhookEvent(RecordingCompleted("m1", <<>>), "none", 0,
                          ApiFailed, 0)

SpecUpdate == Init /\ [][NextUpdate]_vars

\* ------------------------------------------------- signed webhook runs
NextWebhook ==
    \/ \E prov \in {"m1", Fail} : CreateBooking(PlainBooking(None), prov)
    \/ \E kind \in SignatureKinds, timestamp \in {0, 1},
          api \in {ApiFailed, ApiFiles(<<Mp4R1>>)} :
          HandleWebhookEvent(RecordingCompleted("m1", <<>>), kind,
                             timestamp, api, 0)
    \/ \E event \in {"meeting.ended", "meeting.started", "meeting.updated"},
          kind \in SignatureKinds, timestamp \in {0, 1}, now \in Times :
          HandleWebhookEvent(MeetingEvent(event, "m1"), kind, timestamp,
                             ApiFailed, now)
    \/ \E token \in PlainTokens, kind \in {"none", "valid"} :
          HandleWebhookEvent([event |-> "endpoint.url_validation",
                              meetingId |-> None, recording_files |-> <<>>,
                              plainToken |-> token], kind, 1, ApiFailed, 0)

SpecWebhook == Init /\ [][NextWebhook]_vars

\* ------------------------------------- two requests racing for a Session
\* A request that is between its findOne({ bookingId }) and its save() is
\* kept in inflight; the other request may run in between.

\* createZoomSession, lines 24-101: validations and the existence check;
\* the request keeps the body fields that lines 103-114 read
CreateZoomSessionCheck(p, body) ==
    /\ nops < MaxOps
    /\ inflight[p] = Idle
    /\ WellFormedSession(bookings, body)
    /\ SessionsOfBooking(sessions, body.bookingId) = {}
    /\ inflight' = [inflight EXCEPT
                      ![p] = [pc |-> "createZoomSession",
                              body |-> [bookingId |-> body.bookingId,
                                        meetingId |-> body.meetingId,
                                        joinUrl |-> body.joinUrl,
                                        startTime |-> body.startTime,
                                        endTime |-> body.endTime,
                                        recordingUrl |-> body.recordingUrl,
                                        status |-> body.status]]]
    /\ req' = [op |-> "createZoomSession.check", id |-> 0,
               bookingId |-> body.bookingId]
    /\ nops' = nops + 1
    /\ UNCHANGED <<zoom, bookings, sessions, nextBookingId, nextSessionId, secret,
                   stripUndefined, resp, calls, completedSessions,
                   requestedCompleted>>

\* createZoomSession, lines 103-125: new ZoomSessionModel(...).save()
CreateZoomSessionSave(p) ==
    /\ inflight[p].pc = "createZoomSession"
    /\ nextSessionId <= MaxSessions
    /\ LET body == inflight[p].body
           zoomSession ==
               [bookingId |-> body.bookingId, meetingId |-> body.meetingId,
                joinUrl |-> body.joinUrl, startTime |-> body.startTime,
                endTime |-> body.endTime, recordingUrl |-> body.recordingUrl,
                status |-> OrElse(body.status, "scheduled")]
           saved == SaveSession(bookings, sessions, nextSessionId,
                                zoomSession, stripUndefined)
       IN  /\ bookings' = saved.bookings
           /\ sessions' = saved.sessions
           /\ completedSessions' =
                 completedSessions \cup OwnersOfCompleted(saved.sessions)
           /\ req' = [op |-> "createZoomSession.save", id |-> nextSessionId,
                      bookingId |-> body.bookingId]
    /\ nextSessionId' = nextSessionId + 1
    /\ resp' = [status |-> 201]
    /\ calls' = {}
    /\ inflight' = [inflight EXCEPT ![p] = Idle]
    /\ UNCHANGED <<zoom, nextBookingId, secret, stripUndefined,
                   requestedCompleted, nops>>

\* updateBooking, lines 541-736, for a request that marks the booking paid:
\* validation, booking.save() and the findOne that finds no Session
UpdateBookingFind(p, id) ==
    /\ nops < MaxOps
    /\ inflight[p] = Idle
    /\ LET first == updateBookingSave(bookings, sessions, id,
                                      MoveBooking("success"), FALSE)
       IN  /\ first.status = 0
           /\ SessionsOfBooking(sessions, id) = {}
           /\ bookings' = first.bookings
           /\ inflight' = [inflight EXCEPT
                             ![p] = [pc |-> "updateBooking", id |-> id,
                                     booking |-> first.bookings[id]]]
    /\ req' = [op |-> "updateBooking.find", id |-> id, breaksGate |-> FALSE]
    /\ nops' = nops + 1
    /\ UNCHANGED <<zoom, sessions, nextBookingId, nextSessionId, secret,
                   stripUndefined, resp, calls, completedSessions,
                   requestedCompleted>>

\* updateBooking, lines 772-850: createMeeting, newZoomSession.save(), then
\* booking.save() of the document loaded before, which writes its modified
\* path (zoomLink) if the booking is still stored
UpdateBookingBackfill(p, prov) ==
    /\ inflight[p].pc = "updateBooking"
    /\ nextSessionId <= MaxSessions
    /\ LET id == inflight[p].id
           booking == inflight[p].booking
           r == updateBookingBackfill(bookings, sessions, id, booking,
                                      nextSessionId, prov, stripUndefined)
           created == nextSessionId \in DOMAIN r.sessions
           linked == created /\ id \in DOMAIN bookings
                             /\ Truthy(r.bookings[id].zoomLink)
       IN  /\ sessions' = r.sessions
           /\ bookings' =
                 IF linked
                 THEN [bookings EXCEPT ![id].zoomLink = JoinUrlOf(prov)]
                 ELSE bookings
           /\ nextSessionId' =
                 IF created THEN nextSessionId + 1 ELSE nextSessionId
           /\ calls' = r.calls
           /\ req' = [op |-> "updateBooking.backfill", id |-> id,
                      breaksGate |-> FALSE]
    /\ resp' = [status |-> 200]
    /\ inflight' = [inflight EXCEPT ![p] = Idle]
    /\ UNCHANGED <<zoom, nextBookingId, secret, stripUndefined,
                   completedSessions, requestedCompleted, nops>>

RaceSessionBody(bookingId) ==
    [refs |-> "ok", bookingId |-> bookingId, meetingId |-> "m2",
     joinUrl |-> "j2", startTime |-> 0, endTime |-> NoTime,
     recordingUrl |-> None, status |-> None]

NextRace ==
    \/ \E prov \in {"m1", Fail} : CreateBooking(PlainBooking(None), prov)
    \/ \E p \in Procs, b \in BookingIds :
          CreateZoomSessionCheck(p, RaceSessionBody(b))
    \/ \E p \in Procs : CreateZoomSessionSave(p)
    \/ \E p \in Procs, id \in BookingIds : UpdateBookingFind(p, id)
    \/ \E p \in Procs, prov \in {"m1", Fail} :
          UpdateBookingBackfill(p, prov)
    \/ \E id \in SessionIds : DeleteZoomSession(id)

SpecRace == Init /\ [][NextRace]_vars

\* --------------------------------------------------- booking deletion runs
\* deleteBooking, lines 866-897: up to the deletion of the Session
DeleteBookingSession(p, id, prov) ==
    /\ nops < MaxOps
    /\ inflight[p] = Idle
    /\ LET first == deleteBookingSession(sessions, id, prov)
       IN  /\ sessions' = first.sessions
           /\ calls' = first.calls
    /\ inflight' = [inflight EXCEPT
                      ![p] = [pc |-> "deleteBooking", id |-> id,
                              provider |-> prov]]
    /\ req' = [op |-> "deleteBooking.session", id |-> id, provider |-> prov]
    /\ nops' = nops + 1
    /\ UNCHANGED <<zoom, bookings, nextBookingId, nextSessionId, secret,
                   stripUndefined, resp, completedSessions,
                   requestedCompleted>>

\* deleteBooking, lines 899-917: BookingModel.findByIdAndDelete(id) and the
\* response
DeleteBookingRecord(p) ==
    /\ inflight[p].pc = "deleteBooking"
    /\ LET id == inflight[p].id
       IN  /\ bookings' = IF id \in DOMAIN bookings
                          THEN Remove(bookings, id) ELSE bookings
           /\ resp' = [status |-> IF id \in DOMAIN bookings
                                  THEN 200 ELSE 404]
           /\ req' = [op |-> "deleteBooking.record", id |-> id,
                      provider |-> inflight[p].provider]
    /\ calls' = {}
    /\ inflight' = [inflight EXCEPT ![p] = Idle]
    /\ UNCHANGED <<zoom, sessions, nextBookingId, nextSessionId, secret,
                   stripUndefined, completedSessions, requestedCompleted,
                   nops>>

\* a new document's _id is a fresh ObjectId: no request in flight names it
FreshBookingId ==
    \A p \in Procs :
        inflight[p].pc = "deleteBooking" => inflight[p].id # nextBookingId

NextDelete ==
    \/ \E payment \in {None, "success"}, prov \in {"m1", Fail} :
          /\ FreshBookingId
          /\ CreateBooking([PlainBooking(None)
                              EXCEPT !.paymentStatus = payment], prov)
    \/ \E p \in Procs, id \in BookingIds, prov \in {"ok", Fail} :
          DeleteBookingSession(p, id, prov)
    \/ \E p \in Procs : DeleteBookingRecord(p)
    \/ \E api \in {ApiFailed, ApiFiles(<<Mp4R1>>)} :
          HandleWebhookEvent(RecordingCompleted("m1", <<>>), "none", 0,
                             api, 0)

SpecDelete == Init /\ [][NextDelete]_vars

\* ------------------------------------------------ booking notifications
\* createBooking, lines 278-279:
\* zoomSession?.joinUrl || booking.zoomLink || zoomLink || undefined
zoomJoinLink(joinUrl, bookingLink, bodyLink) ==
    OrElse(joinUrl, OrElse(bookingLink, bodyLink))

\* outcomes of one sendHtmlEmail call, and a recipient without an address
SendOutcomes == {"sent", "failed", "throws", "noemail"}

\* createBooking, lines 312-355: the recipients sendHtmlEmail is called for;
\* a throw of the first send skips the second
sendHtmlEmailCalls(userSend, subAdminSend) ==
    (IF userSend # "noemail" THEN {"user"} ELSE {})
    \cup (IF userSend # "throws" /\ subAdminSend # "noemail"
          THEN {"subAdmin"} ELSE {})

\* createBooking, lines 312-355: what the detached block lets escape; its
\* try/catch logs every exception of a send
emailErrorEscapesMutant(userSend, subAdminSend) == userSend = "throws" \/ subAdminSend = "throws"
emailErrorEscapes(userSend, subAdminSend) == FALSE

\* createBooking up to its response at line 362: the handler answers and
\* leaves the detached sends of lines 312-355 pending
CreateBookingRespond(p, body, prov) ==
    /\ nextBookingId <= MaxBookings
    /\ nextSessionId <= MaxSessions
    /\ inflight[p] = Idle
    /\ LET r == createBooking(bookings, sessions, nextBookingId,
                              nextSessionId, body, prov, stripUndefined)
           joinUrl == IF nextSessionId \in DOMAIN r.sessions
                      THEN r.sessions[nextSessionId].joinUrl ELSE None
           link == IF r.status = 201
                   THEN zoomJoinLink(joinUrl,
                                     r.bookings[nextBookingId].zoomLink,
                                     body.zoomLink)
                   ELSE None
       IN  /\ Respond(r, [op |-> "createBooking", id |-> nextBookingId,
                          valid |-> WellFormedBooking(body),
                          paymentStatus |-> body.paymentStatus,
                          zoomLink |-> body.zoomLink,
                          timeslot |-> body.timeslot,
                          provider |-> prov],
                      {})
           /\ inflight' = [inflight EXCEPT
                             ![p] = IF Truthy(link)
                                    THEN [pc |-> "sendHtmlEmail",
                                          id |-> nextBookingId,
                                          link |-> link]
                                    ELSE Idle]

\* the detached sends of lines 312-355, after the response
SendBookingEmails(p, userSend, subAdminSend) ==
    /\ nops < MaxOps
    /\ inflight[p].pc = "sendHtmlEmail"
    /\ req' = [op |-> "sendHtmlEmail", id |-> inflight[p].id,
               link |-> inflight[p].link,
               to |-> sendHtmlEmailCalls(userSend, subAdminSend),
               user |-> userSend, subAdmin |-> subAdminSend]
    /\ calls' = IF sendHtmlEmailCalls(userSend, subAdminSend) = {}
                THEN {} ELSE {"sendHtmlEmail"}
    /\ resp' = IF emailErrorEscapes(userSend, subAdminSend)
               THEN [status |-> 500] ELSE resp
    /\ inflight' = [inflight EXCEPT ![p] = Idle]
    /\ nops' = nops + 1
    /\ UNCHANGED <<zoom, bookings, sessions, nextBookingId, nextSessionId, secret,
                   stripUndefined, completedSessions, requestedCompleted>>

NotifyBodies ==
    {[PlainBooking(None) EXCEPT !.paymentStatus = payment,
                                !.timeslot = slot] :
        payment \in {None, "success"}, slot \in {<<0, 1>>, <<0, 0>>}}

NextNotify ==
    \/ \E p \in Procs, body \in NotifyBodies \cup {BadBody},
          prov \in {"m1", Fail} :
          CreateBookingRespond(p, body, prov)
    \/ \E p \in Procs, userSend \in SendOutcomes,
          subAdminSend \in SendOutcomes :
          SendBookingEmails(p, userSend, subAdminSend)

SpecNotify == Init /\ [][NextNotify]_vars

\* -------------------------------------------- provider client runs
\* the end of a makeAuthenticatedRequest call of process p: how it ended,
\* the requests it sent, the answers to the first and to the second, the
\* token requests it made in all and after a 401
Returned(p, result, first, second) ==
    [op |-> "makeAuthenticatedRequest", result |-> result,
     attempts |-> inflight[p].attempts, first |-> first, second |-> second,
     tokenRequests |-> inflight[p].tokenRequests,
     reacquired |-> inflight[p].reacquired]

ZoomFrame ==
    UNCHANGED <<bookings, sessions, nextBookingId, nextSessionId, secret,
                stripUndefined, resp, calls, completedSessions,
                requestedCompleted, nops>>

\* makeAuthenticatedRequest, lines 233-243: getAccessToken, and the request
\* when the token is cached
MakeAuthenticatedRequest(p) ==
    /\ inflight[p] = Idle
    /\ zoom.started < MaxCalls
    /\ LET got == getAccessToken(zoom)
       IN  /\ zoom' = [zoom EXCEPT
                         !.started = @ + 1,
                         !.tokenRequests =
                             IF got = "exchange" THEN @ + 1 ELSE @]
           /\ inflight' =
                 [inflight EXCEPT
                    ![p] = IF got = "cached"
                           THEN [pc |-> "request", attempts |-> 1,
                                 token |-> zoom.accessToken, first |-> 0,
                                 tokenRequests |-> 0, reacquired |-> 0]
                           ELSE IF got = "exchange"
                           THEN [pc |-> "token", attempts |-> 0,
                                 token |-> NoToken, first |-> 0,
                                 tokenRequests |-> 1, reacquired |-> 0]
                           ELSE Idle]
           /\ req' = [op |-> "getAccessToken", got |-> got,
                      token |-> IF got = "cached" THEN zoom.accessToken
                                ELSE NoToken]
    /\ ZoomFrame

\* getAccessToken, lines 192-221, and the request that follows: the answer
\* to the token request.  expiresIn = 0 stands for a failed request or an
\* answer without access_token.
TokenResponse(p, expiresIn) ==
    /\ inflight[p].pc = "token"
    /\ IF expiresIn = 0
       THEN /\ req' = Returned(p, "AuthError", inflight[p].first, 0)
            /\ inflight' = [inflight EXCEPT ![p] = Idle]
            /\ UNCHANGED zoom
       ELSE LET token == Len(zoom.issued) + 1
                cached == cacheToken(zoom.accessToken, zoom.tokenExpiry,
                                     zoom.now, token, expiresIn)
            IN  /\ zoom' = [zoom EXCEPT
                              !.accessToken = cached[1],
                              !.tokenExpiry = cached[2],
                              !.issued = Append(@, expiresIn),
                              !.cachedAt = Append(@, zoom.now)]
                /\ inflight' = [inflight EXCEPT
                                  ![p].pc = "request",
                                  ![p].token = cached[1],
                                  ![p].attempts = @ + 1]
                /\ req' = [op |-> "tokenResponse", token |-> token,
                           expiresIn |-> expiresIn]
    /\ ZoomFrame

\* makeAuthenticatedRequest, lines 235-268: the answer to the request
ApiResponse(p, status) ==
    /\ inflight[p].pc = "request"
    /\ LET next == afterResponse(status, inflight[p].attempts > 1)
       IN  IF next = "retry"
           THEN LET cleared == [zoom EXCEPT !.accessToken = NoToken]
                    got == getAccessToken(cleared)
                IN  /\ zoom' = [cleared EXCEPT
                                  !.tokenRequests =
                                      IF got = "exchange" THEN @ + 1 ELSE @]
                    /\ inflight' =
                          [inflight EXCEPT
                             ![p] = IF got = "exchange"
                                    THEN [pc |-> "token",
                                          attempts |-> inflight[p].attempts,
                                          token |-> NoToken,
                                          first |-> status,
                                          tokenRequests |->
                                              inflight[p].tokenRequests + 1,
                                          reacquired |->
                                              inflight[p].reacquired + 1]
                                    ELSE Idle]
                    /\ req' = [op |-> "apiResponse", status |-> status,
                               got |-> got]
           ELSE /\ req' = IF inflight[p].attempts > 1
                          THEN Returned(p, next, inflight[p].first, status)
                          ELSE Returned(p, next, status, 0)
                /\ inflight' = [inflight EXCEPT ![p] = Idle]
                /\ UNCHANGED zoom
    /\ ZoomFrame

\* Date.now() advances by one second
Tick ==
    /\ zoom.now < MaxClock * 1000
    /\ zoom' = [zoom EXCEPT !.now = @ + 1000]
    /\ UNCHANGED <<bookings, sessions, nextBookingId, nextSessionId, secret,
                   stripUndefined, req, resp, calls, completedSessions,
                   requestedCompleted, inflight, nops>>

InitZoom ==
    /\ InitStores
    /\ secret = ""
    /\ stripUndefined
    /\ zoom \in {ZoomService(c) : c \in BOOLEAN}

NextZoom ==
    \/ \E p \in Procs : MakeAuthenticatedRequest(p)
    \/ \E p \in Procs, expiresIn \in ExpiresIn \cup {0} :
          TokenResponse(p, expiresIn)
    \/ \E p \in Procs, status \in {200, 401, 500} : ApiResponse(p, status)
    \/ Tick

SpecZoom == InitZoom /\ [][NextZoom]_vars

\* --------------------------------------------------------- recording runs
\* the k-th file of a list: its type, with or without a play_url; src tells
\* the lookup's files ("a") from the payload's ("w")
RecordingFile(src, k, type, hasPlay) ==
    [file_type |-> type,
     play_url |-> IF ~hasPlay THEN None
                  ELSE IF src = "a" THEN <<"ap1", "ap2">>[k]
                  ELSE <<"wp1", "wp2">>[k],
     download_url |-> IF src = "a" THEN <<"ad1", "ad2">>[k]
                      ELSE <<"wd1", "wd2">>[k]]

FileTypes == {"MP4", "M4A", "CHAT"}

FileLists(src) ==
    {<<>>}
    \cup {<<RecordingFile(src, 1, t, h)>> : t \in FileTypes, h \in BOOLEAN}
    \cup {<<RecordingFile(src, 1, t[1], h[1]),
            RecordingFile(src, 2, t[2], h[2])>> :
            t \in FileTypes \X FileTypes, h \in BOOLEAN \X BOOLEAN}

\* what the properties need to know of a list of files
FilesDigest(files) ==
    [i \in 1..Len(files) |->
        <<files[i].file_type, files[i].play_url, files[i].download_url>>]

\* POST /zoom/webhook with an unsigned recording.completed event for "m1"
RecordingCompletedEvent(files, api) ==
    /\ Respond(handleWebhookEvent(bookings, sessions, secret,
                                  RecordingCompleted("m1", files),
                                  [signature |-> <<>>, timestamp |-> 0],
                                  api, 0, stripUndefined),
               [op |-> "recording.completed", meetingId |-> "m1",
                lookup |-> api.ok,
                apiFiles |-> FilesDigest(api.recording_files),
                payloadFiles |-> FilesDigest(files)],
               {})
    /\ UNCHANGED inflight

NextRecording ==
    \/ \E prov \in {"m1", Fail} : CreateBooking(PlainBooking(None), prov)
    \/ \E files \in FileLists("w") : RecordingCompletedEvent(files, ApiFailed)
    \/ \E files \in {<<>>, <<RecordingFile("w", 1, "CHAT", FALSE)>>},
          found \in FileLists("a") :
          RecordingCompletedEvent(files, ApiFiles(found))

SpecRecording == Init /\ [][NextRecording]_vars

\* --------------------------------------------------------- handshake runs
\* POST /zoom/webhook with an endpoint.url_validation event
UrlValidationEvent(token, kind, timestamp) ==
    /\ LET body == [event |-> "endpoint.url_validation",
                    meetingId |-> None, recording_files |-> <<>>,
                    plainToken |-> token]
           r == handleWebhookEvent(bookings, sessions, secret, body,
                                   [signature |->
                                        SignatureOf(kind, body, timestamp),
                                    timestamp |-> timestamp],
                                   ApiFailed, 0, stripUndefined)
       IN  Respond(r, [op |-> "endpoint.url_validation",
                       plainToken |-> token,
                       signature |-> IF timestamp = 0 THEN "none" ELSE kind,
                       answer |-> IF r.status = 200
                                  THEN verificationAnswer(secret, token)
                                  ELSE <<>>],
                   {})
    /\ UNCHANGED inflight

NextHandshake ==
    \/ \E prov \in {"m1", Fail} : CreateBooking(PlainBooking(None), prov)
    \/ \E token \in PlainTokens \cup {"tok2"}, kind \in SignatureKinds,
          timestamp \in {0, 1} :
          UrlValidationEvent(token, kind, timestamp)

SpecHandshake == Init /\ [][NextHandshake]_vars

\* ------------------------------------------------- rejected request runs
\* bodies that fail each validation of createBooking and updateBooking, an
\* unpaid booking and a paid one
RejectBodies ==
    {BadBody, [BadBody EXCEPT !.refs = "notfound"],
     [PlainBooking(None) EXCEPT !.paymentStatus = "bogus"],
     [PlainBooking(None) EXCEPT !.bookingStatus = "bogus"],
     [PlainBooking(None) EXCEPT !.zoomLink = "x"],
     PlainBooking(None),
     [PlainBooking(None) EXCEPT !.paymentStatus = "success"]}

NextReject ==
    \/ \E p \in Procs, body \in RejectBodies, prov \in {"m1", Fail} :
          CreateBookingRespond(p, body, prov)
    \/ \E p \in Procs : SendBookingEmails(p, "sent", "sent")
    \/ \E id \in BookingIds, body \in RejectBodies, prov \in {"m1", Fail} :
          UpdateBooking(id, body, FALSE, prov)

SpecReject == Init /\ [][NextReject]_vars

\* ------------------------------------------- createBooking step by step
\* createBooking, lines 186-246: what follows the step pc.  prov is the
\* outcome of createMeeting, paid tells whether finalPaymentStatus is success
createBookingAfterMutant(pc, prov, paid) == IF pc = "createMeeting" THEN "session" ELSE IF pc = "session" /\ paid THEN "link" ELSE "respond"
createBookingAfter(pc, prov, paid) ==
    IF pc = "createMeeting"
    THEN (IF prov = Fail THEN "respond" ELSE "session")
    ELSE IF pc = "session" THEN (IF paid THEN "link" ELSE "respond")
    ELSE "respond"

\* createBooking, lines 16-180: validation and booking.save()
CreateBookingPersist(p, body) ==
    /\ nops < MaxOps
    /\ nextBookingId <= MaxBookings
    /\ inflight[p] = Idle
    /\ LET r == createBooking(bookings, sessions, nextBookingId,
                              nextSessionId, body, Fail, stripUndefined)
           saved == r.status = 201
           start == body.timeslot[1]
           durationMinutes == DurationMinutes(start, body.timeslot[2])
           calling == /\ saved
                      /\ ~BelowOneMinute(durationMinutes)
                      /\ start # InvalidTime
       IN  /\ bookings' = r.bookings
           /\ nextBookingId' = IF saved THEN nextBookingId + 1
                               ELSE nextBookingId
           /\ resp' = IF calling THEN resp ELSE [status |-> r.status]
           /\ inflight' =
                 [inflight EXCEPT
                    ![p] = IF calling
                           THEN [pc |-> "createMeeting",
                                 id |-> nextBookingId,
                                 paid |-> OrElse(body.paymentStatus,
                                                 "pending") = "success",
                                 start |-> start, end |-> body.timeslot[2],
                                 meetingId |-> None]
                           ELSE Idle]
           /\ req' = [op |-> "createBooking.persist", id |-> nextBookingId,
                      status |-> r.status]
    /\ calls' = {}
    /\ nops' = nops + 1
    /\ UNCHANGED <<sessions, nextSessionId>>
    /\ UNCHANGED <<secret, stripUndefined, completedSessions,
                   requestedCompleted, zoom>>

\* createBooking, lines 206-221: createMeeting and its outcome
CreateBookingMeeting(p, prov) ==
    /\ inflight[p].pc = "createMeeting"
    /\ LET next == createBookingAfter("createMeeting", prov,
                                      inflight[p].paid)
       IN  /\ inflight' =
                 [inflight EXCEPT
                    ![p] = IF next = "session"
                           THEN [pc |-> "session", id |-> inflight[p].id,
                                 paid |-> inflight[p].paid,
                                 start |-> inflight[p].start,
                                 end |-> inflight[p].end,
                                 meetingId |-> prov]
                           ELSE Idle]
           /\ resp' = IF next = "respond" THEN [status |-> 201] ELSE resp
    /\ calls' = {"createMeeting"}
    /\ req' = [op |-> "createBooking.createMeeting", id |-> inflight[p].id,
               provider |-> prov]
    /\ UNCHANGED <<bookings, sessions, nextBookingId, nextSessionId, nops>>
    /\ UNCHANGED <<secret, stripUndefined, completedSessions,
                   requestedCompleted, zoom>>

\* createBooking, lines 223-233: the ZoomSession document and its save()
CreateBookingSession(p) ==
    /\ inflight[p].pc = "session"
    /\ nextSessionId <= MaxSessions
    /\ LET zoomSession == [bookingId |-> inflight[p].id,
                           meetingId |-> inflight[p].meetingId,
                           joinUrl |-> JoinUrlOf(inflight[p].meetingId),
                           startTime |-> inflight[p].start,
                           endTime |-> inflight[p].end,
                           recordingUrl |-> None, status |-> "scheduled"]
           saved == SaveSession(bookings, sessions, nextSessionId,
                                zoomSession, stripUndefined)
           next == createBookingAfter("session", inflight[p].meetingId,
                                      inflight[p].paid)
       IN  /\ bookings' = saved.bookings
           /\ sessions' = saved.sessions
           /\ inflight' = [inflight EXCEPT
                             ![p] = IF next = "link"
                                    THEN [inflight[p] EXCEPT !.pc = "link"]
                                    ELSE Idle]
           /\ resp' = IF next = "respond" THEN [status |-> 201] ELSE resp
    /\ nextSessionId' = nextSessionId + 1
    /\ calls' = {}
    /\ req' = [op |-> "createBooking.session", id |-> inflight[p].id,
               provider |-> inflight[p].meetingId]
    /\ UNCHANGED <<nextBookingId, nops>>
    /\ UNCHANGED <<secret, stripUndefined, completedSessions,
                   requestedCompleted, zoom>>

\* createBooking, lines 235-241: booking.zoomLink = join_url; save()
CreateBookingLink(p) ==
    /\ inflight[p].pc = "link"
    /\ LET id == inflight[p].id
           link == JoinUrlOf(inflight[p].meetingId)
           \* the hook sees the document in memory; save() writes the
           \* modified path
           booking == [paymentStatus |-> "success", zoomLink |-> link]
       IN  bookings' = IF BookingPreSave(booking)
                       THEN [bookings EXCEPT ![id].zoomLink = link]
                       ELSE bookings
    /\ inflight' = [inflight EXCEPT ![p] = Idle]
    /\ resp' = [status |-> 201]
    /\ calls' = {}
    /\ req' = [op |-> "createBooking.link", id |-> inflight[p].id,
               provider |-> inflight[p].meetingId]
    /\ UNCHANGED <<sessions, nextBookingId, nextSessionId, nops>>
    /\ UNCHANGED <<secret, stripUndefined, completedSessions,
                   requestedCompleted, zoom>>

NextOrder ==
    \/ \E p \in Procs,
          body \in {BadBody}
                   \cup BookingFields({None, "success"}, {None}, {None, "x"},
                                      {<<0, 1>>, <<0, 0>>}) :
          CreateBookingPersist(p, body)
    \/ \E p \in Procs, prov \in {"m1", "m2", Fail} :
          CreateBookingMeeting(p, prov)
    \/ \E p \in Procs : CreateBookingSession(p)
    \/ \E p \in Procs : CreateBookingLink(p)

SpecOrder == Init /\ [][NextOrder]_vars

\* --------------------------------------------------------- payment runs
\* PaymentSchema.post("save"): findByIdAndUpdate(bookingId, {paymentStatus}),
\* which runs no Booking save hook
PaymentPostSave(bks, bookingId, status) ==
    IF bookingId \notin DOMAIN bks THEN bks
    ELSE [bks EXCEPT ![bookingId].paymentStatus = status]

\* payment.save() of a Payment document with this bookingId and status.
\* Nothing reads the Payment collection, so only its hook is kept.
SavePayment(bookingId, status) ==
    /\ nops < MaxOps
    /\ bookings' = PaymentPostSave(bookings, bookingId, status)
    /\ req' = [op |-> "payment.save", id |-> bookingId, status |-> status]
    /\ calls' = {}
    /\ nops' = nops + 1
    /\ UNCHANGED <<sessions, nextBookingId, nextSessionId, secret,
                   stripUndefined, resp, completedSessions,
                   requestedCompleted, inflight, zoom>>

NextPayment ==
    \/ \E payment \in {None, "success"}, prov \in {"m1", Fail} :
          CreateBooking([PlainBooking(None) EXCEPT !.paymentStatus = payment],
                        prov)
    \/ \E bookingId \in BookingIds, status \in PaymentStatus :
          SavePayment(bookingId, status)

SpecPayment == Init /\ [][NextPayment]_vars

\* ------------------------------- two updateBooking requests on one booking
\* A request that only carries paymentStatus, between its awaits.  The
\* document loaded by findById stays in memory; save() runs the hook on it
\* and writes its modified paths.

\* updateBooking, lines 541-727: findById and the assignments to the
\* loaded document
UpdateBookingLoad(p, id, paymentStatus) ==
    /\ nops < MaxOps
    /\ inflight[p] = Idle
    /\ id \in DOMAIN bookings
    /\ inflight' = [inflight EXCEPT
                      ![p] = [pc |-> "updateBooking.loaded", id |-> id,
                              originalPaymentStatus |->
                                  bookings[id].paymentStatus,
                              paymentStatus |-> paymentStatus,
                              zoomLink |-> bookings[id].zoomLink]]
    /\ req' = [op |-> "updateBooking.load", id |-> id,
               paymentStatus |-> paymentStatus]
    /\ nops' = nops + 1
    /\ UNCHANGED <<bookings, resp, calls>>
    /\ UNCHANGED <<sessions, nextBookingId, nextSessionId, secret,
                   stripUndefined, completedSessions, requestedCompleted,
                   zoom>>

\* updateBooking, line 729: booking.save()
UpdateBookingStatusSave(p) ==
    /\ inflight[p].pc = "updateBooking.loaded"
    /\ LET id == inflight[p].id
           booking == [paymentStatus |-> inflight[p].paymentStatus,
                       zoomLink |-> inflight[p].zoomLink]
       IN  IF BookingPreSave(booking)
           THEN /\ bookings' =
                      IF inflight[p].paymentStatus
                           # inflight[p].originalPaymentStatus
                      THEN [bookings EXCEPT
                              ![id].paymentStatus = inflight[p].paymentStatus]
                      ELSE bookings
                /\ inflight' = [inflight EXCEPT
                                  ![p].pc = "updateBooking.saved"]
                /\ resp' = resp
           ELSE /\ bookings' = bookings
                /\ inflight' = [inflight EXCEPT ![p] = Idle]
                /\ resp' = [status |-> 500]
    /\ req' = [op |-> "updateBooking.save", id |-> inflight[p].id,
               paymentStatus |-> inflight[p].paymentStatus]
    /\ UNCHANGED <<calls, nops>>
    /\ UNCHANGED <<sessions, nextBookingId, nextSessionId, secret,
                   stripUndefined, completedSessions, requestedCompleted,
                   zoom>>

\* updateBooking, lines 733-746 and 846: the Session is looked up and, when
\* the request moved the payment to success, its joinUrl is assigned to the
\* loaded document and saved
UpdateBookingLinkSave(p) ==
    /\ inflight[p].pc = "updateBooking.saved"
    /\ LET id == inflight[p].id
           found == SessionsOfBooking(sessions, id)
       IN  bookings' =
             IF /\ found # {}
                /\ movesToSuccess(inflight[p].paymentStatus,
                                  inflight[p].originalPaymentStatus)
             THEN [bookings EXCEPT
                     ![id].zoomLink = sessions[First(found)].joinUrl]
             ELSE bookings
    /\ inflight' = [inflight EXCEPT ![p] = Idle]
    /\ resp' = [status |-> 200]
    /\ req' = [op |-> "updateBooking.link", id |-> inflight[p].id,
               paymentStatus |-> inflight[p].paymentStatus]
    /\ UNCHANGED <<calls, nops>>
    /\ UNCHANGED <<sessions, nextBookingId, nextSessionId, secret,
                   stripUndefined, completedSessions, requestedCompleted,
                   zoom>>

NextLinkRace ==
    \/ \E prov \in {"m1", Fail} : CreateBooking(PlainBooking(None), prov)
    \/ \E p \in Procs, id \in BookingIds,
          paymentStatus \in {"success", "refunded"} :
          UpdateBookingLoad(p, id, paymentStatus)
    \/ \E p \in Procs : UpdateBookingStatusSave(p)
    \/ \E p \in Procs : UpdateBookingLinkSave(p)

SpecLinkRace == Init /\ [][NextLinkRace]_vars

\* ---------------------- deleteBooking beside requests that store a Session
\* updateBooking, lines 775-792: the duration test and the findById that
\* reads the names for the meeting topic; without them nothing is created
UpdateBookingTopic(p) ==
    /\ inflight[p].pc = "updateBooking"
    /\ LET id == inflight[p].id
           booking == inflight[p].booking
           durationMinutes == DurationMinutes(booking.timeslot[1],
                                              booking.timeslot[2])
           goesOn == /\ AtLeastOneMinute(durationMinutes)
                     /\ id \in DOMAIN bookings
       IN  /\ inflight' = [inflight EXCEPT
                             ![p] = IF goesOn
                                    THEN [pc |-> "updateBooking.topic",
                                          id |-> id, booking |-> booking]
                                    ELSE Idle]
           /\ resp' = IF goesOn THEN resp ELSE [status |-> 200]
           /\ req' = [op |-> "updateBooking.topic", id |-> id,
                      breaksGate |-> FALSE]
    /\ UNCHANGED <<bookings, sessions, nextBookingId, nextSessionId, secret,
                   stripUndefined, calls, completedSessions,
                   requestedCompleted, nops, zoom>>

\* updateBooking, lines 797-850: createMeeting, newZoomSession.save() and
\* booking.save() of the loaded document, which writes zoomLink if the
\* booking is still stored
UpdateBookingMeeting(p, prov) ==
    /\ inflight[p].pc = "updateBooking.topic"
    /\ nextSessionId <= MaxSessions
    /\ LET id == inflight[p].id
           booking == inflight[p].booking
           r == updateBookingBackfill(bookings, sessions, id, booking,
                                      nextSessionId, prov, stripUndefined)
           created == nextSessionId \in DOMAIN r.sessions
           linked == created /\ id \in DOMAIN bookings
                             /\ Truthy(r.bookings[id].zoomLink)
       IN  /\ sessions' = r.sessions
           /\ bookings' =
                 IF linked
                 THEN [bookings EXCEPT ![id].zoomLink = JoinUrlOf(prov)]
                 ELSE bookings
           /\ nextSessionId' =
                 IF created THEN nextSessionId + 1 ELSE nextSessionId
           /\ calls' = r.calls
           /\ req' = [op |-> "updateBooking.meeting", id |-> id,
                      breaksGate |-> FALSE]
    /\ resp' = [status |-> 200]
    /\ inflight' = [inflight EXCEPT ![p] = Idle]
    /\ UNCHANGED <<nextBookingId, secret, stripUndefined,
                   completedSessions, requestedCompleted, nops, zoom>>

NextIntegrity ==
    \/ \E prov \in {"m1", Fail} :
          /\ FreshBookingId
          /\ CreateBooking(PlainBooking(None), prov)
    \/ \E p \in Procs, id \in BookingIds :
          DeleteBookingSession(p, id, "ok")
    \/ \E p \in Procs : DeleteBookingRecord(p)
    \/ \E p \in Procs, b \in BookingIds :
          CreateZoomSessionCheck(p, RaceSessionBody(b))
    \/ \E p \in Procs : CreateZoomSessionSave(p)
    \/ \E p \in Procs, id \in BookingIds : UpdateBookingFind(p, id)
    \/ \E p \in Procs : UpdateBookingTopic(p)
    \/ \E p \in Procs, prov \in {"m1", Fail} : UpdateBookingMeeting(p, prov)

SpecIntegrity == Init /\ [][NextIntegrity]_vars

\* ------------------------------------- events after a Session completed
\* the stores after createBooking scheduled meeting m1 and a
\* recording.completed event for m1 was handled
InitCompleted ==
    /\ secret \in {"", ProviderSecret}
    /\ stripUndefined \in BOOLEAN
    /\ \E api \in {ApiFailed, ApiFiles(<<Mp4R1>>)} :
          LET created == createBooking(<<>>, <<>>, 1, 1, PlainBooking(None),
                                       "m1", stripUndefined)
              completed ==
                  handleRecordingCompleted(created.bookings, created.sessions,
                                           RecordingCompleted("m1", <<>>),
                                           api, stripUndefined)
          IN  /\ bookings = completed.bookings
              /\ sessions = completed.sessions
              /\ completedSessions = OwnersOfCompleted(completed.sessions)
    /\ nextBookingId = 2
    /\ nextSessionId = 2
    /\ req = [op |-> "none"]
    /\ resp = [status |-> 0]
    /\ calls = {}
    /\ requestedCompleted = {}
    /\ inflight = [p \in Procs |-> Idle]
    /\ nops = 0
    /\ zoom = ZoomService(TRUE)

\* what an administrator sends afterwards, and the session-end event
NextCompleted ==
    \/ \E id \in BookingIds, prov \in {"ok", Fail},
          body \in [refs : {"ok"}, paymentStatus : {None},
                    bookingStatus : {None, "cancelled"}, zoomLink : {None},
                    zoomRecordingLink : {None, "x"},
                    timeslot : {NoSlot, <<0, 2>>}] :
          UpdateBooking(id, body, FALSE, prov)
    \/ \E now \in Times :
          HandleWebhookEvent(MeetingEvent("meeting.ended", "m1"), "none", 0,
                             ApiFailed, now)

SpecCompleted == InitCompleted /\ [][NextCompleted]_vars

\* -------------------------------- two webhook handlers for one meeting
\* Each handler reads the Session with findOne and saves it in a later
\* step; save() writes the paths the handler modified on its own copy and
\* runs the post-save hook on that copy.

\* handleMeetingStarted, lines 305-318: findOne({meetingId})
MeetingStartedFind(p, meetingId) ==
    /\ nops < MaxOps
    /\ inflight[p] = Idle
    /\ LET found == SessionsOfMeeting(sessions, meetingId)
       IN  inflight' = [inflight EXCEPT
                          ![p] = IF found = {} THEN Idle
                                 ELSE [pc |-> "meeting.started",
                                       id |-> First(found),
                                       status |-> sessions[First(found)].status,
                                       bookingId |->
                                           sessions[First(found)].bookingId]]
    /\ req' = [op |-> "meeting.started.find", meetingId |-> meetingId]
    /\ resp' = [status |-> 200]
    /\ calls' = {}
    /\ nops' = nops + 1
    /\ UNCHANGED <<bookings, sessions, completedSessions>>
    /\ UNCHANGED <<nextBookingId, nextSessionId, secret, stripUndefined,
                   requestedCompleted, zoom>>

\* handleMeetingStarted, lines 320-322: status = ONGOING and save()
MeetingStartedSave(p) ==
    /\ inflight[p].pc = "meeting.started"
    /\ LET id == inflight[p].id
       IN  sessions' = IF inflight[p].status # "ongoing"
                       THEN [sessions EXCEPT ![id].status = "ongoing"]
                       ELSE sessions
    /\ inflight' = [inflight EXCEPT ![p] = Idle]
    /\ req' = [op |-> "meeting.started.save", meetingId |-> None]
    /\ UNCHANGED <<bookings, resp, calls, nops, completedSessions>>
    /\ UNCHANGED <<nextBookingId, nextSessionId, secret, stripUndefined,
                   requestedCompleted, zoom>>

\* handleRecordingCompleted, lines 180-202: findOne({meetingId})
RecordingCompletedFind(p, meetingId) ==
    /\ nops < MaxOps
    /\ inflight[p] = Idle
    /\ LET found == SessionsOfMeeting(sessions, meetingId)
       IN  inflight' = [inflight EXCEPT
                          ![p] = IF found = {} THEN Idle
                                 ELSE [pc |-> "recording.completed",
                                       id |-> First(found),
                                       recordingUrl |->
                                           sessions[First(found)].recordingUrl,
                                       status |-> sessions[First(found)].status,
                                       bookingId |->
                                           sessions[First(found)].bookingId]]
    /\ req' = [op |-> "recording.completed.find", meetingId |-> meetingId]
    /\ resp' = [status |-> 200]
    /\ calls' = {}
    /\ nops' = nops + 1
    /\ UNCHANGED <<bookings, sessions, completedSessions>>
    /\ UNCHANGED <<nextBookingId, nextSessionId, secret, stripUndefined,
                   requestedCompleted, zoom>>

\* handleRecordingCompleted, lines 205-265: getMeetingRecordings, the
\* choice of the recording URL, status = COMPLETED and save() with its hook
RecordingCompletedSave(p, api) ==
    /\ inflight[p].pc = "recording.completed"
    /\ LET id == inflight[p].id
           recordingUrl == IF api.ok
                           THEN SelectRecordingUrl(api.recording_files)
                           ELSE None
           loaded == [recordingUrl |-> inflight[p].recordingUrl,
                      status |-> inflight[p].status,
                      bookingId |-> inflight[p].bookingId]
           zoomSession == completeSession(loaded, recordingUrl)
           written == IF recordingUrl # None
                      THEN [sessions EXCEPT
                              ![id].recordingUrl = recordingUrl]
                      ELSE sessions
       IN  /\ sessions' = IF inflight[p].status # "completed"
                          THEN [written EXCEPT ![id].status = "completed"]
                          ELSE written
           /\ bookings' = ZoomSessionPostSave(bookings, zoomSession,
                                              stripUndefined)
           /\ completedSessions' =
                 completedSessions \cup {inflight[p].bookingId}
    /\ inflight' = [inflight EXCEPT ![p] = Idle]
    /\ req' = [op |-> "recording.completed.save", meetingId |-> None]
    /\ calls' = {"getMeetingRecordings"}
    /\ UNCHANGED <<resp, nops>>
    /\ UNCHANGED <<nextBookingId, nextSessionId, secret, stripUndefined,
                   requestedCompleted, zoom>>

NextEvents ==
    \/ \E prov \in {"m1", Fail} : CreateBooking(PlainBooking(None), prov)
    \/ \E p \in Procs : MeetingStartedFind(p, "m1")
    \/ \E p \in Procs : MeetingStartedSave(p)
    \/ \E p \in Procs : RecordingCompletedFind(p, "m1")
    \/ \E p \in Procs, api \in {ApiFailed, ApiFiles(<<Mp4R1>>)} :
          RecordingCompletedSave(p, api)

SpecEvents == Init /\ [][NextEvents]_vars

\* ------------------------------------------------------ token expiry runs
\* lifetimes below, at and above the margin of 60 seconds; one caller at a
\* time, as the margin does not depend on the interleaving
NextExpiry ==
    \/ MakeAuthenticatedRequest(1)
    \/ \E expiresIn \in {59, 60, 61, 62} : TokenResponse(1, expiresIn)
    \/ \E status \in {200, 401} : ApiResponse(1, status)
    \/ Tick

SpecExpiry == InitZoom /\ [][NextExpiry]_vars

\* ============================================================ properties

\* C1: every stored Booking whose zoomLink is non-empty has
\* paymentStatus = success, after any sequence of createBooking and
\* updateBooking requests, whatever the provider answered.
C1_LinkGating ==
    \A b \in DOMAIN bookings :
        Truthy(bookings[b].zoomLink) => bookings[b].paymentStatus = "success"

\* a linked booking stored by an accepted updateBooking
C1_Witness ==
    /\ req.op = "updateBooking"
    /\ resp.status = 200
    /\ req.id \in DOMAIN bookings
    /\ Truthy(bookings[req.id].zoomLink)

\* C2 as stated: an updateBooking request whose resulting record would
\* have a link while paymentStatus is not success is answered 400 and
\* leaves the stored Booking unchanged.
C2_RejectedWith400 ==
    [][(req'.op = "updateBooking" /\ req'.breaksGate)
         => (resp'.status = 400 /\ bookings' = bookings)]_vars

\* C8 as stated: a Booking has bookingStatus = completed only if a Session
\* it owns has been saved with status completed.
C8_CompletedOnlyBySession ==
    \A b \in DOMAIN bookings :
        bookings[b].bookingStatus = "completed" => b \in completedSessions

\* C8 amended: a Booking has bookingStatus = completed only if a Session
\* it owns has been saved with status completed, or an accepted
\* createBooking or updateBooking request carried bookingStatus = completed.
C8_CompletedBySessionOrRequest ==
    \A b \in DOMAIN bookings :
        bookings[b].bookingStatus = "completed"
            => b \in completedSessions \cup requestedCompleted

\* a booking completed by its Session alone
C8_Witness ==
    \E b \in DOMAIN bookings :
        /\ bookings[b].bookingStatus = "completed"
        /\ b \in completedSessions
        /\ b \notin requestedCompleted

\* C3 as stated: whenever a step stores a Session with status = completed
\* (a new or a changed document), the owning Booking has, after that step,
\* bookingStatus = completed and zoomRecordingLink equal to the Session's
\* recordingUrl.
C3_CompletionPropagates ==
    [][\A s \in DOMAIN sessions' :
          (/\ sessions'[s].status = "completed"
           /\ (s \notin DOMAIN sessions \/ sessions[s] # sessions'[s]))
          => /\ sessions'[s].bookingId \in DOMAIN bookings'
             /\ bookings'[sessions'[s].bookingId].bookingStatus = "completed"
             /\ bookings'[sessions'[s].bookingId].zoomRecordingLink
                    = sessions'[s].recordingUrl]_vars

\* C4 as stated: no webhook event changes the status of a Session that is
\* completed.
C4_CompletedIsTerminal ==
    [][\A s \in DOMAIN sessions :
          (sessions[s].status = "completed" /\ req'.op = "webhook")
          => (s \in DOMAIN sessions' /\ sessions'[s].status = "completed")
      ]_vars

\* C5: a recording.completed event handled right after a handled
\* recording.completed event for the same meeting id, with the same
\* recording URL or with none, is answered 200 and leaves every Session
\* and every Booking as the first handling left them.
C5_CompletionIdempotent ==
    [][(req'.op = "webhook" /\ req'.repeat)
         => (/\ sessions' = sessions
             /\ bookings' = bookings
             /\ resp'.status = 200)]_vars

\* a repeated completion of a Session that exists and is completed
C5_Witness ==
    /\ req.op = "webhook"
    /\ req.repeat
    /\ req.recordingUrl = None
    /\ \E s \in DOMAIN sessions :
          /\ sessions[s].meetingId = req.meetingId
          /\ sessions[s].status = "completed"
          /\ sessions[s].recordingUrl # None
          /\ sessions[s].bookingId \in DOMAIN bookings

\* C6: at most one Session per bookingId in every state, and a well-formed
\* createZoomSession (or an updateZoomSession that moves a Session) naming
\* a booking that already has another Session is answered 409 and leaves
\* the Session collection unchanged.
C6_OneSessionPerBooking ==
    /\ [](\A s, t \in DOMAIN sessions :
            sessions[s].bookingId = sessions[t].bookingId => s = t)
    /\ [][(/\ req'.op = "createZoomSession"
            /\ req'.valid
            /\ \E s \in DOMAIN sessions :
                  sessions[s].bookingId = req'.bookingId)
           => (resp'.status = 409 /\ sessions' = sessions)]_vars
    /\ [][(/\ req'.op = "updateZoomSession"
            /\ req'.id \in DOMAIN sessions
            /\ req'.bookingId \in DOMAIN bookings
            /\ \E s \in DOMAIN sessions \ {req'.id} :
                  sessions[s].bookingId = req'.bookingId)
           => (resp'.status = 409 /\ sessions' = sessions)]_vars

\* a second Session for a booking was refused
C6_Witness ==
    /\ req.op = "createZoomSession"
    /\ resp.status = 409
    /\ \E s \in DOMAIN sessions : sessions[s].bookingId = req.bookingId

\* C7 as stated: whatever the interleaving of two requests that each
\* create a Session for the same booking, no two Session records have the
\* same bookingId.
C7_RaceLeavesOneSession ==
    \A s \in DOMAIN sessions :
        Cardinality(SessionsOfBooking(sessions, sessions[s].bookingId)) = 1

\* C9 as stated: with a secret configured, a non-handshake event with both
\* headers and a signature other than the expected one is answered 401,
\* writes no Session and no Booking and calls the provider not at all.
C9_MismatchIs401 ==
    [][(/\ req'.op = "webhook"
        /\ secret # ""
        /\ req'.event # "endpoint.url_validation"
        /\ req'.signature \in {"forged", "short"})
       => (/\ resp'.status = 401
           /\ sessions' = sessions
           /\ bookings' = bookings
           /\ calls' = {})]_vars

\* C10 as stated: with a secret configured, a webhook request changes a
\* Session or a Booking only if it carried a signature and a timestamp
\* that verified against the secret.
C10_OnlyVerifiedEventsWrite ==
    [][(/\ req'.op = "webhook"
        /\ secret # ""
        /\ (sessions' # sessions \/ bookings' # bookings))
       => req'.signature = "valid"]_vars

\* C11 as stated: the webhook endpoint answers 200, 400 or 401 only; 400
\* only to a verification challenge without a plain token, 401 only to an
\* event whose signature does not match.
C11_StatusIs200Or400Or401 ==
    [][req'.op = "webhook"
       => (/\ resp'.status \in {200, 400, 401}
           /\ (resp'.status = 400
                 => (/\ req'.event = "endpoint.url_validation"
                     /\ ~Truthy(req'.plainToken)))
           /\ (resp'.status = 401
                 => (secret # "" /\ req'.signature = "forged")))]_vars

\* C12: after a recording.completed event is handled for a meeting id that
\* has a Session, that Session is completed and the Booking it belongs to
\* has bookingStatus completed, whatever the recordings lookup returned and
\* whether or not the payload embeds recording files.
C12_NeverStuckOnRecording ==
    [][(/\ req'.op = "webhook"
        /\ req'.event = "recording.completed"
        /\ req'.dispatched
        /\ \E s \in DOMAIN sessions : sessions[s].meetingId = req'.meetingId)
       => \E s \in DOMAIN sessions' :
             /\ sessions'[s].meetingId = req'.meetingId
             /\ sessions'[s].status = "completed"
             /\ sessions'[s].bookingId \in DOMAIN bookings'
             /\ bookings'[sessions'[s].bookingId].bookingStatus
                   = "completed"]_vars

\* a completion handled although no recording URL could be derived
C12_Witness ==
    /\ req.op = "webhook"
    /\ req.event = "recording.completed"
    /\ req.recordingUrl = None
    /\ \E s \in DOMAIN sessions :
          /\ sessions[s].meetingId = req.meetingId
          /\ sessions[s].status = "completed"
          /\ sessions[s].recordingUrl = None
          /\ bookings[sessions[s].bookingId].bookingStatus = "completed"

\* C13: a session-start, session-end or recording.completed event that
\* carries no meeting id, or whose meeting id matches no Session, writes no
\* Session and no Booking, calls the provider not at all and is answered
\* 200.
C13_UnknownMeetingIsNoOp ==
    [][(/\ req'.op = "webhook"
        /\ req'.event \in {"recording.completed", "meeting.ended",
                           "meeting.started"}
        /\ \/ req'.meetingId = None
           \/ \A s \in DOMAIN sessions :
                 sessions[s].meetingId # req'.meetingId)
       => (/\ sessions' = sessions
           /\ bookings' = bookings
           /\ calls' = {}
           /\ resp'.status = 200)]_vars

\* an event for a meeting of another system arrived while a Session exists
C13_Witness ==
    /\ req.op = "webhook"
    /\ req.event = "recording.completed"
    /\ req.meetingId = "m2"
    /\ resp.status = 200
    /\ sessions # <<>>
    /\ \A s \in DOMAIN sessions : sessions[s].meetingId # "m2"

C16_CreateSchedulesSession ==
    [][(/\ req'.op = "createBooking"
        /\ resp'.status = 201
        /\ req'.provider # Fail
        /\ LET d == DurationMinutes(req'.timeslot[1], req'.timeslot[2])
           IN  d # NaN /\ d >= 1)
       => LET owned == {s \in DOMAIN sessions' :
                           sessions'[s].bookingId = req'.id}
          IN  /\ Cardinality(owned) = 1
              /\ \A s \in owned :
                    /\ sessions'[s].status = "scheduled"
                    /\ sessions'[s].meetingId = req'.provider
                    /\ IF req'.paymentStatus = "success"
                       THEN bookings'[req'.id].zoomLink = sessions'[s].joinUrl
                       ELSE ~Truthy(bookings'[req'.id].zoomLink)]_vars

\* a paid booking that got the join URL of its new Session
C16_Witness ==
    /\ req.op = "createBooking"
    /\ resp.status = 201
    /\ req.paymentStatus = "success"
    /\ \E s \in DOMAIN sessions :
          /\ sessions[s].bookingId = req.id
          /\ sessions[s].meetingId = req.provider
          /\ bookings[req.id].zoomLink = sessions[s].joinUrl

\* C17: an updateBooking answered 200 that carries paymentStatus success
\* for a booking whose payment status was not success and that has a
\* Session leaves the Booking's zoomLink equal to that Session's joinUrl.
C17_PaymentSuccessLinks ==
    [][(/\ req'.op = "updateBooking"
        /\ resp'.status = 200
        /\ req'.paymentStatus = "success"
        /\ req'.id \in DOMAIN bookings
        /\ bookings[req'.id].paymentStatus # "success"
        /\ \E s \in DOMAIN sessions : sessions[s].bookingId = req'.id)
       => \E s \in DOMAIN sessions' :
             /\ sessions'[s].bookingId = req'.id
             /\ Truthy(sessions'[s].joinUrl)
             /\ bookings'[req'.id].zoomLink = sessions'[s].joinUrl]_vars

\* an unpaid booking with a Session has just been marked paid
C17_Witness ==
    /\ req.op = "updateBooking"
    /\ resp.status = 200
    /\ req.paymentStatus = "success"
    /\ req.provider = Fail
    /\ \E s \in DOMAIN sessions :
          /\ sessions[s].bookingId = req.id
          /\ bookings[req.id].zoomLink = sessions[s].joinUrl

\* C18 as stated: after an updateBooking answered 200 on a booking that is
\* paid (payment status success after the update) and had no Session, with
\* a duration of at least one minute and a successful createMeeting, a
\* scheduled Session of the booking exists and the Booking's zoomLink is
\* its joinUrl, whether or not the request carried paymentStatus.
C18_BackfillOnUpdate ==
    [][(/\ req'.op = "updateBooking"
        /\ resp'.status = 200
        /\ req'.provider # Fail
        /\ req'.id \in DOMAIN bookings
        /\ bookings'[req'.id].paymentStatus = "success"
        /\ \A s \in DOMAIN sessions : sessions[s].bookingId # req'.id
        /\ LET slot == bookings'[req'.id].timeslot
               d == DurationMinutes(slot[1], slot[2])
           IN  d # NaN /\ d >= 1)
       => \E s \in DOMAIN sessions' :
             /\ sessions'[s].bookingId = req'.id
             /\ sessions'[s].status = "scheduled"
             /\ bookings'[req'.id].zoomLink = sessions'[s].joinUrl]_vars

\* C19: an updateBooking answered 200 that carries a time window of at
\* least one minute for a booking that has a Session calls updateMeeting;
\* if the call succeeds the Session's startTime and endTime are the new
\* start and end, if it fails the Session is left as it was.
C19_TimeWindowFollows ==
    [][(/\ req'.op = "updateBooking"
        /\ resp'.status = 200
        /\ req'.timeslot # NoSlot
        /\ \E s \in DOMAIN sessions : sessions[s].bookingId = req'.id
        /\ LET d == DurationMinutes(req'.timeslot[1], req'.timeslot[2])
           IN  d # NaN /\ d >= 1)
       => /\ "updateMeeting" \in calls'
          /\ \A s \in DOMAIN sessions :
                sessions[s].bookingId = req'.id
                => IF req'.provider # Fail
                   THEN /\ sessions'[s].startTime = req'.timeslot[1]
                        /\ sessions'[s].endTime = req'.timeslot[2]
                        /\ bookings'[req'.id].timeslot = req'.timeslot
                   ELSE sessions'[s] = sessions[s]]_vars

\* the Session of a booking has been moved to a new time window
C19_Witness ==
    /\ req.op = "updateBooking"
    /\ resp.status = 200
    /\ req.timeslot = <<0, 2>>
    /\ req.provider # Fail
    /\ "updateMeeting" \in calls
    /\ \E s \in DOMAIN sessions :
          /\ sessions[s].bookingId = req.id
          /\ sessions[s].startTime = 0
          /\ sessions[s].endTime = 2

C21_DeleteRemovesSessionThenBooking ==
    /\ [](\A s \in DOMAIN sessions : sessions[s].bookingId \in DOMAIN bookings)
    /\ [][(/\ req'.op = "deleteBooking.session"
            /\ \E s \in DOMAIN sessions : sessions[s].bookingId = req'.id)
           => (/\ "deleteMeeting" \in calls'
               /\ \A s \in DOMAIN sessions' :
                     sessions'[s].bookingId # req'.id
               /\ bookings' = bookings)]_vars
    /\ [][(/\ req'.op = "deleteBooking.record"
            /\ req'.id \in DOMAIN bookings)
           => (/\ resp'.status = 200
               /\ req'.id \notin DOMAIN bookings'
               /\ \A s \in DOMAIN sessions' :
                     sessions'[s].bookingId # req'.id)]_vars

\* a booking with a Session was deleted although deleteMeeting failed
C21_Witness ==
    /\ req.op = "deleteBooking.record"
    /\ req.provider = Fail
    /\ resp.status = 200
    /\ nextSessionId > 1
    /\ sessions = <<>>
    /\ req.id \notin DOMAIN bookings

\* C22: a createBooking request leaves a notification with a join link
\* pending only if the Booking it stored has a zoomLink of its own.
C22_NotifiesOnlyLinkedBookings ==
    [][\A p \in Procs :
         (/\ req'.op = "createBooking"
          /\ inflight[p] = Idle
          /\ inflight'[p].pc = "sendHtmlEmail")
         => Truthy(bookings'[req'.id].zoomLink)]_vars

\* C23: the sends run after the 201 answer and, whether they succeed,
\* return failure or throw, leave the answer, the Bookings and the Sessions
\* as they were.
C23_SendsAreDetached ==
    /\ [][\A p \in Procs :
            (inflight[p] = Idle /\ inflight'[p].pc = "sendHtmlEmail")
            => resp'.status = 201]_vars
    /\ [][req'.op = "sendHtmlEmail"
           => (resp' = resp /\ bookings' = bookings
               /\ sessions' = sessions)]_vars

\* a send threw after a booking with its Session was answered 201
C23_Witness ==
    /\ req.op = "sendHtmlEmail"
    /\ req.user = "throws"
    /\ resp.status = 201
    /\ \E s \in DOMAIN sessions : sessions[s].bookingId = req.id

\* C24: a makeAuthenticatedRequest call that finds a cached token with
\* now < tokenExpiry gets that token and sends no token request, so any
\* number of such calls get the same token; a call that finds the cached
\* token expired sends exactly one token request, and the answer to a token
\* request is cached with the expiry computed from it.
C24_TokenCache ==
    /\ [][(/\ zoom'.started = zoom.started + 1
            /\ zoom.accessToken # NoToken
            /\ zoom.now < zoom.tokenExpiry)
           => (/\ req'.got = "cached"
               /\ req'.token = zoom.accessToken
               /\ zoom'.tokenRequests = zoom.tokenRequests
               /\ zoom'.accessToken = zoom.accessToken
               /\ zoom'.tokenExpiry = zoom.tokenExpiry)]_vars
    /\ [][(/\ zoom'.started = zoom.started + 1
            /\ zoom.accessToken # NoToken
            /\ zoom.now >= zoom.tokenExpiry)
           => (/\ req'.got = "exchange"
               /\ zoom'.tokenRequests = zoom.tokenRequests + 1)]_vars
    /\ [][Len(zoom'.issued) = Len(zoom.issued) + 1
           => (/\ zoom'.accessToken = Len(zoom'.issued)
               /\ zoom'.tokenExpiry =
                     zoom.now + (req'.expiresIn - 60) * 1000)]_vars

\* the second call found the token of the first still good
C24_Witness ==
    /\ req.op = "getAccessToken"
    /\ req.got = "cached"
    /\ req.token # NoToken
    /\ zoom.started = 2
    /\ zoom.tokenRequests = 1

\* C25 as stated: a call whose first request was answered 401 makes one
\* token request after it and sends exactly one retry.
C25_ExactlyOneRetry ==
    [][(/\ req'.op = "makeAuthenticatedRequest"
        /\ inflight' # inflight
        /\ req'.first = 401)
       => (req'.reacquired = 1 /\ req'.attempts = 2)]_vars

\* C25: a 401 answer to the first request clears the cached token and
\* sends one token request; the retry is sent once if that token request
\* succeeds and not at all if it fails; no call sends more than two
\* requests; a first answer other than 401 is never retried; a failed
\* retry ends the call with the error of that answer.
C25_RetryOnceOn401 ==
    /\ [][\A p \in Procs :
            (/\ inflight[p].pc = "request"
             /\ inflight'[p].pc = "token")
            => (/\ inflight[p].attempts = 1
                /\ zoom'.accessToken = NoToken
                /\ zoom'.tokenRequests = zoom.tokenRequests + 1)]_vars
    /\ [][(req'.op = "makeAuthenticatedRequest" /\ inflight' # inflight)
           => (/\ req'.attempts <= 2
               /\ req'.first = 401
                    => (/\ req'.reacquired = 1
                        /\ IF req'.result = "AuthError"
                           THEN req'.attempts = 1
                           ELSE req'.attempts = 2)
               /\ req'.first \notin {0, 401}
                    => (req'.attempts = 1 /\ req'.reacquired = 0)
               /\ req'.first \notin {0, 200, 401}
                    => req'.result = "ZoomApiError"
               /\ (req'.attempts = 2 /\ req'.second # 200)
                    => req'.result = "AxiosError")]_vars

\* the retry after a 401 failed and ended the call
C25_Witness ==
    /\ req.op = "makeAuthenticatedRequest"
    /\ req.first = 401
    /\ req.second = 401
    /\ req.attempts = 2
    /\ req.result = "AxiosError"

\* C30: under every interleaving of the calls, a cached token was issued
\* by the provider and tokenExpiry is the expiry computed from the answer
\* that carried it, and every request is sent with an issued token.
C30_CacheStaysConsistent ==
    /\ zoom.accessToken # NoToken
         => (/\ zoom.accessToken \in 1..Len(zoom.issued)
             /\ zoom.tokenExpiry =
                   zoom.cachedAt[zoom.accessToken]
                   + (zoom.issued[zoom.accessToken] - 60) * 1000)
    /\ \A p \in Procs :
          inflight[p].pc = "request"
            => inflight[p].token \in 1..Len(zoom.issued)

\* a call refreshed the cache while another, answered 401, had cleared it
\* and was waiting for its own token
C30_Witness ==
    \E p, q \in Procs :
        /\ inflight[p].pc = "token"
        /\ inflight[p].reacquired = 1
        /\ inflight[q].pc = "request"
        /\ zoom.accessToken = inflight[q].token
        /\ zoom.accessToken # NoToken
        /\ Len(zoom.issued) = 2

\* C26: when the lookup of a recording.completed event succeeds and
\* returns no file, the payload's files are not used: the Session keeps
\* the recordingUrl it had.
C26_PayloadOnlyAfterFailedLookup ==
    [][(/\ req'.op = "recording.completed"
        /\ req'.lookup
        /\ req'.apiFiles = <<>>)
       => \A s \in DOMAIN sessions :
             sessions'[s].recordingUrl = sessions[s].recordingUrl]_vars

\* C27: the URL stored for a list of files is that of the first MP4 or M4A
\* file, or of the first file when the list has none; it is the file's
\* play_url when it has one and its download_url otherwise.  The list is
\* the lookup's when it returned files and the payload's when it failed.
C27_RecordingUrlSelection ==
    [][(/\ req'.op = "recording.completed"
        /\ \E s \in DOMAIN sessions : sessions[s].meetingId = "m1"
        /\ IF req'.lookup THEN req'.apiFiles # <<>>
           ELSE req'.payloadFiles # <<>>)
       => LET files == IF req'.lookup THEN req'.apiFiles
                       ELSE req'.payloadFiles
              primary == {i \in 1..Len(files) : files[i][1] \in {"MP4", "M4A"}}
              chosen == IF primary = {} THEN 1
                        ELSE CHOOSE i \in primary : \A j \in primary : i <= j
              url == IF files[chosen][2] # None THEN files[chosen][2]
                     ELSE files[chosen][3]
          IN  \E s \in DOMAIN sessions :
                 /\ sessions[s].meetingId = "m1"
                 /\ sessions'[s].recordingUrl = url
                 /\ sessions'[s].status = "completed"]_vars

\* a CHAT file came first and an M4A file without play_url second: the
\* Session holds the download_url of the second
C27_Witness ==
    /\ req.op = "recording.completed"
    /\ req.lookup
    /\ Len(req.apiFiles) = 2
    /\ req.apiFiles[1][1] = "CHAT"
    /\ req.apiFiles[2][1] = "M4A"
    /\ req.apiFiles[2][2] = None
    /\ \E s \in DOMAIN sessions : sessions[s].recordingUrl = "ad2"

\* C28: an endpoint.url_validation event with a plain token is answered 200
\* with that token and its digest keyed by the webhook secret, one without
\* is answered 400; neither checks the signature, calls the provider or
\* touches a Booking or a Session.
C28_Handshake ==
    [][req'.op = "endpoint.url_validation"
       => (/\ IF Truthy(req'.plainToken)
              THEN /\ resp'.status = 200
                   /\ req'.answer =
                         <<req'.plainToken,
                           HmacHex(secret, TokenCodes(req'.plainToken))>>
              ELSE resp'.status = 400
           /\ bookings' = bookings
           /\ sessions' = sessions
           /\ calls' = {})]_vars

\* C29: a createBooking or updateBooking request answered 400 or 404
\* leaves the Bookings and the Sessions as they were, calls the provider
\* for nothing and leaves no notification to send.
C29_RejectedChangesNothing ==
    [][(/\ req'.op \in {"createBooking", "updateBooking"}
        /\ resp'.status \in {400, 404})
       => (/\ bookings' = bookings
           /\ sessions' = sessions
           /\ calls' = {}
           /\ inflight' = inflight)]_vars

\* an update of a stored, scheduled booking was answered 400
C29_Witness ==
    /\ req.op = "updateBooking"
    /\ resp.status = 400
    /\ req.id \in DOMAIN bookings
    /\ req.paymentStatus = None
    /\ \E s \in DOMAIN sessions : sessions[s].bookingId = req.id

\* C31 as stated: whenever a step of createBooking gives a Booking its
\* zoomLink, a Session of that Booking is already stored.
C31_LinkOnlyAfterSession ==
    [][\A b \in DOMAIN bookings' :
         (/\ Truthy(bookings'[b].zoomLink)
          /\ b \in DOMAIN bookings => ~Truthy(bookings[b].zoomLink))
         => \E s \in DOMAIN sessions : sessions[s].bookingId = b]_vars

\* C31: in createBooking the Booking is stored before createMeeting is
\* called, a Session is written only with the meeting id that createMeeting
\* returned, and the join link of the meeting is written to the Booking
\* only when the Session is stored; every Session has a meeting id of the
\* provider.
C31_StepOrder ==
    /\ [](\A s \in DOMAIN sessions : sessions[s].meetingId \in MeetingIds)
    /\ [][req'.op = "createBooking.createMeeting"
           => (req'.id \in DOMAIN bookings /\ "createMeeting" \in calls')]_vars
    /\ [][\A s \in DOMAIN sessions' \ DOMAIN sessions :
            /\ req'.op = "createBooking.session"
            /\ req'.provider \in MeetingIds
            /\ sessions'[s].meetingId = req'.provider
            /\ sessions'[s].bookingId \in DOMAIN bookings]_vars
    /\ [][req'.op = "createBooking.link"
           => \E s \in DOMAIN sessions :
                 /\ sessions[s].bookingId = req'.id
                 /\ bookings'[req'.id].zoomLink = sessions[s].joinUrl]_vars

\* a paid booking got the join link of its stored Session
C31_Witness ==
    /\ req.op = "createBooking.link"
    /\ resp.status = 201
    /\ \E s \in DOMAIN sessions :
          /\ sessions[s].bookingId = req.id
          /\ bookings[req.id].zoomLink = sessions[s].joinUrl

\* C32: after a Payment of any status is saved for a booking, every Booking
\* with a zoomLink has paymentStatus success.
C32_PaymentSyncKeepsLinkGate ==
    [][req'.op = "payment.save"
       => \A b \in DOMAIN bookings' :
             Truthy(bookings'[b].zoomLink)
               => bookings'[b].paymentStatus = "success"]_vars

\* C33: under every interleaving of two updateBooking requests on one
\* booking, no stored Booking has a zoomLink while its paymentStatus is
\* other than success.
C33_LinkGatingUnderRace ==
    ~\E b \in DOMAIN bookings :
        /\ Truthy(bookings[b].zoomLink)
        /\ bookings[b].paymentStatus # "success"

\* C34: in every reachable state, also while a deleteBooking runs beside
\* an updateBooking or a createZoomSession for the same booking, the
\* bookingId of every Session is the id of a stored Booking.
C34_SessionsReferToBookings ==
    {sessions[s].bookingId : s \in DOMAIN sessions} \subseteq DOMAIN bookings

\* C35: a Session write that does not complete the Session leaves the
\* owning Booking as it was: a handled meeting.ended event changes no
\* Booking, and an updateBooking that moves the Session's time window
\* stores the bookingStatus the request asked for, also when the Session
\* completed earlier and an administrator changed the Booking since.
C35_SessionWritesLeaveBooking ==
    /\ [][(req'.op = "webhook" /\ req'.event = "meeting.ended")
           => bookings' = bookings]_vars
    /\ [][(/\ req'.op = "updateBooking"
            /\ resp'.status = 200
            /\ req'.timeslot # NoSlot)
           => bookings'[req'.id].bookingStatus =
                 OrElse(req'.bookingStatus, bookings[req'.id].bookingStatus)]_vars

\* C36: once a meeting.started handler and a recording.completed handler
\* for the same meeting have both finished, in whatever order their reads
\* and writes ran, no Booking has bookingStatus completed while its
\* Session has another status than completed.
C36_CompletedBookingHasCompletedSession ==
    (\A p \in Procs : inflight[p] = Idle)
        => \A s \in DOMAIN sessions :
              (/\ sessions[s].bookingId \in DOMAIN bookings
               /\ bookings[sessions[s].bookingId].bookingStatus = "completed")
                  => sessions[s].status = "completed"

\* C37: a call is given the cached token only at an instant strictly
\* before t + (L - 60) seconds, t being the instant the token was cached
\* and L its issued lifetime; a token with L <= 60 is never given from the
\* cache, and the call that follows it sends a new token request.
C37_ExpiryMargin ==
    /\ [][(/\ zoom'.started = zoom.started + 1
            /\ req'.got = "cached")
           => (/\ req'.token \in 1..Len(zoom.issued)
               /\ zoom.issued[req'.token] > 60
               /\ zoom.now < zoom.cachedAt[req'.token]
                               + (zoom.issued[req'.token] - 60) * 1000)]_vars
    /\ [][(/\ zoom'.started = zoom.started + 1
            /\ zoom.accessToken # NoToken
            /\ zoom.issued[zoom.accessToken] <= 60)
           => (/\ req'.got = "exchange"
               /\ zoom'.tokenRequests = zoom.tokenRequests + 1)]_vars

\* a call in the same instant as the caching of a token that lives 60
\* seconds sent a token request of its own
C37_Witness ==
    /\ req.op = "getAccessToken"
    /\ req.got = "exchange"
    /\ Len(zoom.issued) = 1
    /\ zoom.issued[1] = 60
    /\ zoom.accessToken = 1
    /\ zoom.now = zoom.cachedAt[1]
    /\ zoom.tokenRequests = 2

====
